---- MODULE Spec2Model ----
(***************************************************************************)
(* A model of kids.data.mdict: the escape-aware path tokenizer             *)
(* (mk_solid_split, mk_sep_fun, mk_join_fun, tokenize / untokenize), the   *)
(* path navigator (aget, mget, mset, mdel) over a heap of dicts and lists  *)
(* that are mutated in place, the classifier (classify / unclassify,       *)
(* inflate / deflate) and the views of class mdict with their cached flat  *)
(* projection.                                                             *)
(*                                                                         *)
(* A Python str is a sequence of one-character strings.  Generators are    *)
(* modelled by the sequence of the values they yield; `raise               *)
(* StopIteration` inside mk_tokenize_from_sep_fun.tokenize ends the        *)
(* generator, as the doctests of mk_char_tokenizer expect.                 *)
(***************************************************************************)
EXTENDS Integers, Sequences, FiniteSets, TLC

VARIABLES tpc, tsep, tqc, tstr, ttoks, tstr2, ttoks2,
          heap, spent, op, clsf, vw, mdr, gr

vars == <<tpc, tsep, tqc, tstr, ttoks, tstr2, ttoks2, heap, spent, op,
          clsf, vw, mdr, gr>>

(***************************************************************************)
(* Bounds of the model.                                                    *)
(***************************************************************************)
\* longest path string (and longest word cut into a token sequence)
MaxStrLen == 4

\* the calls made on one tree take at most MaxInput characters together,
\* each call counting for its path plus one
MaxInput == 5

(***************************************************************************)
(* Characters.                                                             *)
(***************************************************************************)
\* the default quote_char of mk_solid_split / mk_sep_fun / mk_join_fun
DefaultQuote == "\\"

\* the default separator of mget / mset / mdel / mdict
DefaultSep == "."

\* separators and escape characters the tokenizers are built with
SepChars == {".", "/"}

QuoteChars == {"\\", "^"}

\* the characters path strings are made of
Alphabet == {"a", ".", "/", "\\", "^"}

\* characters re.escape() prefixes with a backslash (the ones of Alphabet
\* that are special in a regular expression in every Python version)
ReSpecial == {".", "\\", "^"}

\* a character that is in no alphabet of the model, marking the cuts of a
\* word
Cut == "|"

RECURSIVE StringsOfLen(_, _)
StringsOfLen(A, n) ==
    IF n = 0 THEN {<<>>}
    ELSE {Append(w, c) : w \in StringsOfLen(A, n - 1), c \in A}

StringsUpTo(A, n) == UNION {StringsOfLen(A, k) : k \in 0..n}

(***************************************************************************)
(* mk_solid_split: the two-state splitter.                                 *)
(***************************************************************************)
\* the final state of state_machine (Python's None)
NoneState == -1

next_state_keeps_quoted(state, char, sep, qc) ==
    IF state = 0
    THEN IF char = qc THEN 1
         ELSE IF char = sep THEN NoneState
         ELSE 0
    ELSE IF char = qc THEN 1 ELSE 0

\* state_machine = ([(quote_char, 1), (split_char, None), (None, 0)],
\*                  [(None, 0)]); the first matching pattern wins
next_state(state, char, sep, qc) ==
    IF state = 0
    THEN IF char = qc THEN 1
         ELSE IF char = sep THEN NoneState
         ELSE 0
    ELSE 0

\* the loop of split(s) from index i on (1-based), in state `state'
RECURSIVE split_from(_, _, _, _, _, _)
split_from(s, i, state, acc, sep, qc) ==
    IF i > Len(s)
    THEN [tuple |-> FALSE, head |-> acc, tail |-> <<>>]
    ELSE LET st == next_state(state, s[i], sep, qc)
         IN  IF st = NoneState
             THEN [tuple |-> TRUE, head |-> acc,
                   tail |-> SubSeq(s, i + 1, Len(s))]
             ELSE split_from(s, i + 1, st,
                             IF st = 0 THEN Append(acc, s[i]) ELSE acc,
                             sep, qc)

\* split(s): a plain string (tuple = FALSE) or the pair (head, tail)
split(s, sep, qc) == split_from(s, 1, 0, <<>>, sep, qc)

(***************************************************************************)
(* mk_sep_fun / mk_join_fun.                                               *)
(***************************************************************************)
\* sep_fun(value, deep) for value = (key, v)
sep_fun(value, deep, sep, qc) ==
    IF deep = 0
    THEN [headk |-> value[1], tailv |-> value[2], final |-> TRUE]
    ELSE LET splitted == split(value[1], sep, qc)
         IN  IF ~splitted.tuple
             THEN [headk |-> splitted.head, tailv |-> value[2],
                   final |-> TRUE]
             ELSE [headk |-> splitted.head,
                   tailv |-> <<splitted.tail, value[2]>>,
                   final |-> FALSE]

\* re.escape(c) for one character
re_escape(c) == IF c \in ReSpecial THEN <<"\\", c>> ELSE <<c>>

\* what the replacement template r'%(qc)s\1' puts before the matched
\* character: the template is re.escape(quote_char) followed by \1, and in
\* a template `\\' is one backslash while an unknown escape of a
\* non-letter is left alone, backslash included
template_prefix(qc) ==
    LET e == re_escape(qc)
    IN  IF Len(e) = 1 THEN e
        ELSE IF e[2] = "\\" THEN <<"\\">>
        ELSE e

quote_sep_only(s, sep, qc) ==
    LET RECURSIVE q(_)
        q(i) == IF i > Len(s) THEN <<>>
                ELSE (IF s[i] = sep
                      THEN template_prefix(qc) \o <<s[i]>>
                      ELSE <<s[i]>>) \o q(i + 1)
    IN  q(1)

\* quote(s) = quote_chars.sub(r'%(qc)s\1' % prepare, s)
quote(s, sep, qc) ==
    LET RECURSIVE q(_)
        q(i) == IF i > Len(s) THEN <<>>
                ELSE (IF s[i] = qc \/ s[i] = sep
                      THEN template_prefix(qc) \o <<s[i]>>
                      ELSE <<s[i]>>) \o q(i + 1)
    IN  q(1)

join_fun_final_unquoted(key, value, final, sep, qc) ==
    IF final
    THEN <<key, value>>
    ELSE <<quote(key, sep, qc) \o <<sep>> \o value[1], value[2]>>

\* join_fun(key, value, final): the pair (joined key, value)
join_fun(key, value, final, sep, qc) ==
    IF final
    THEN <<quote(key, sep, qc), value>>
    ELSE <<quote(key, sep, qc) \o <<sep>> \o value[1], value[2]>>

(***************************************************************************)
(* mk_tokenize_from_sep_fun / mk_untokenize_from_join_fun.                 *)
(***************************************************************************)
\* the sentinel `End = object()'
End == "End"

\* tokenize(s): the heads _rec yields before it yields End
RECURSIVE tokenize(_, _, _)
tokenize(s, sep, qc) ==
    LET r == sep_fun(<<s, End>>, -1, sep, qc)
    IN  IF r.final
        THEN <<r.headk>>
        ELSE <<r.headk>> \o tokenize(r.tailv[1], sep, qc)

RECURSIVE untokenizing(_, _, _)
untokenizing(tokens, sep, qc) ==
    LET head == Head(tokens)
        tail == Tail(tokens)
    IN  IF Len(tail) = 0
        THEN join_fun(head, End, TRUE, sep, qc)
        ELSE join_fun(head, untokenizing(tail, sep, qc), FALSE, sep, qc)

\* untokenize(tokens) of a non-empty token sequence (an empty one raises
\* ValueError)
untokenize(tokens, sep, qc) == untokenizing(tokens, sep, qc)[1]

(***************************************************************************)
(* Inputs of the tokenizer specification.                                  *)
(***************************************************************************)
Strings == StringsUpTo(Alphabet, MaxStrLen)

\* the token sequence a word is cut into at its Cut marks
RECURSIVE CutWord(_)
CutWord(w) ==
    IF \A i \in 1..Len(w) : w[i] # Cut
    THEN <<w>>
    ELSE LET i == CHOOSE j \in 1..Len(w) :
                      w[j] = Cut /\ \A k \in 1..(j - 1) : w[k] # Cut
         IN  <<SubSeq(w, 1, i - 1)>> \o CutWord(SubSeq(w, i + 1, Len(w)))

\* every non-empty token sequence whose tokens have, with the cuts between
\* them, at most MaxStrLen characters
TokenSeqs == {CutWord(w) : w \in StringsUpTo(Alphabet \cup {Cut}, MaxStrLen)}

Configs == {c \in SepChars \X QuoteChars : c[1] # c[2]}

(***************************************************************************)
(* The tokenizer specification: a string is tokenized and untokenized      *)
(* back, a token sequence is untokenized and tokenized back.               *)
(***************************************************************************)
NoHeap == <<>>
NoOp == [name |-> "none"]
NoCls == [pc |-> "off"]
NoViews == [pc |-> "off"]
NoReader == [pc |-> "off"]
NoGraph == [pc |-> "off"]

InitTok ==
    /\ mdr = NoReader
    /\ gr = NoGraph
    /\ \E c \in Configs : tsep = c[1] /\ tqc = c[2]
    /\ \/ /\ tpc = "str"
          /\ tstr \in Strings
          /\ ttoks = <<>>
       \/ /\ tpc = "toks"
          /\ ttoks \in TokenSeqs
          /\ tstr = <<>>
    /\ tstr2 = <<>>
    /\ ttoks2 = <<>>
    /\ heap = NoHeap
    /\ spent = 0
    /\ op = NoOp
    /\ clsf = NoCls
    /\ vw = NoViews

TokenizeStr ==
    /\ tpc = "str"
    /\ ttoks' = tokenize(tstr, tsep, tqc)
    /\ tpc' = "str_tokenized"
    /\ UNCHANGED <<tsep, tqc, tstr, tstr2, ttoks2, heap, spent, op, clsf, vw,
                   mdr, gr>>

UntokenizeBack ==
    /\ tpc = "str_tokenized"
    /\ tstr2' = untokenize(ttoks, tsep, tqc)
    /\ tpc' = "str_done"
    /\ UNCHANGED <<tsep, tqc, tstr, ttoks, ttoks2, heap, spent, op, clsf, vw,
                   mdr, gr>>

UntokenizeToks ==
    /\ tpc = "toks"
    /\ tstr2' = untokenize(ttoks, tsep, tqc)
    /\ tpc' = "toks_untokenized"
    /\ UNCHANGED <<tsep, tqc, tstr, ttoks, ttoks2, heap, spent, op, clsf, vw,
                   mdr, gr>>

TokenizeBack ==
    /\ tpc = "toks_untokenized"
    /\ ttoks2' = tokenize(tstr2, tsep, tqc)
    /\ tpc' = "toks_done"
    /\ UNCHANGED <<tsep, tqc, tstr, ttoks, tstr2, heap, spent, op, clsf, vw,
                   mdr, gr>>

NextTok ==
    \/ TokenizeStr
    \/ UntokenizeBack
    \/ UntokenizeToks
    \/ TokenizeBack

SpecTok == InitTok /\ [][NextTok]_vars

(***************************************************************************)
(* The tree: Python objects on a heap.  A value is a leaf or a reference   *)
(* to a container; heap[i] is the container with identity i, a dict (a     *)
(* function from string keys to values) or a list (a sequence of values).  *)
(* Containers are mutated in place: an assignment changes heap[i].         *)
(***************************************************************************)
Leaf(n) == [k |-> "leaf", v |-> n]
Ref(i) == [k |-> "ref", v |-> i]
Dict(f) == [k |-> "dict", m |-> f]
List(s) == [k |-> "list", m |-> s]
EmptyDict == Dict([x \in {} |-> Leaf(0)])

IsDict(h, val) == val.k = "ref" /\ h[val.v].k = "dict"
IsList(h, val) == val.k = "ref" /\ h[val.v].k = "list"

\* the result of a call: the value returned, or the exception raised
Ok(val) == [err |-> "", val |-> val]
Raise(e) == [err |-> e, val |-> Leaf(0)]

\* class MissingKeyError(KeyError), NonDictLikeTypeError(TypeError),
\* IndexNotIntegerError(ValueError), IndexOutOfRange(IndexError)
IsInstance(e, cls) ==
    \/ e = cls
    \/ e = "MissingKeyError" /\ cls = "KeyError"
    \/ e = "NonDictLikeTypeError" /\ cls = "TypeError"
    \/ e = "IndexNotIntegerError" /\ cls = "ValueError"
    \/ e = "IndexOutOfRange" /\ cls = "IndexError"

(***************************************************************************)
(* Python built-ins used by aget, mset and mdel.                           *)
(***************************************************************************)
Digits == {"0", "1", "2", "3", "4", "5", "6", "7", "8", "9"}

DigitValue(c) ==
    CASE c = "0" -> 0 [] c = "1" -> 1 [] c = "2" -> 2 [] c = "3" -> 3
      [] c = "4" -> 4 [] c = "5" -> 5 [] c = "6" -> 6 [] c = "7" -> 7
      [] c = "8" -> 8 [] c = "9" -> 9

\* int(head) of a str over the model's characters: an optional sign and
\* at least one digit, else ValueError
RECURSIVE py_int_digits(_, _, _)
py_int_digits(s, i, acc) ==
    IF i > Len(s) THEN Ok(acc)
    ELSE IF s[i] \notin Digits THEN Raise("ValueError")
    ELSE py_int_digits(s, i + 1, 10 * acc + DigitValue(s[i]))

py_int(s) ==
    IF Len(s) = 0 THEN Raise("ValueError")
    ELSE IF s[1] = "-"
         THEN IF Len(s) = 1 THEN Raise("ValueError")
              ELSE LET r == py_int_digits(s, 2, 0)
                   IN  IF r.err = "" THEN Ok(0 - r.val) ELSE r
    ELSE py_int_digits(s, 1, 0)

py_list_getitem_no_negative(lst, idx) ==
    IF idx < 0 \/ idx >= Len(lst) THEN Raise("IndexError")
    ELSE Ok(lst[idx + 1])

\* lst[idx] for a list and an int
py_list_getitem(lst, idx) ==
    LET n == Len(lst)
        i == IF idx < 0 THEN idx + n ELSE idx
    IN  IF i < 0 \/ i >= n THEN Raise("IndexError") ELSE Ok(lst[i + 1])

\* dct[head] for an object that is not a list and a str head
py_getitem(h, dct, head) ==
    IF IsDict(h, dct)
    THEN IF head \in DOMAIN h[dct.v].m
         THEN Ok(h[dct.v].m[head])
         ELSE Raise("KeyError")
    ELSE Raise("TypeError")

py_setitem_clears(h, dct, key, value) ==
    IF IsDict(h, dct)
    THEN [err |-> "",
          heap |-> [h EXCEPT ![dct.v] = Dict([x \in {key} |-> value])]]
    ELSE [err |-> "TypeError", heap |-> h]

\* dct[key] = value for a str key: the heap afterwards, or the exception
py_setitem(h, dct, key, value) ==
    IF IsDict(h, dct)
    THEN LET m == h[dct.v].m
         IN  [err |-> "",
              heap |-> [h EXCEPT ![dct.v] =
                          Dict([x \in DOMAIN m \cup {key} |->
                                  IF x = key THEN value ELSE m[x]])]]
    ELSE [err |-> "TypeError", heap |-> h]

py_delitem_clears(h, dct, key) ==
    IF IsDict(h, dct)
    THEN IF key \in DOMAIN h[dct.v].m
         THEN [err |-> "", heap |-> [h EXCEPT ![dct.v] = EmptyDict]]
         ELSE [err |-> "KeyError", heap |-> h]
    ELSE [err |-> "TypeError", heap |-> h]

py_delitem_missing_key_error(h, dct, key) ==
    IF IsDict(h, dct)
    THEN LET m == h[dct.v].m
         IN  IF key \in DOMAIN m
             THEN [err |-> "",
                   heap |-> [h EXCEPT ![dct.v] =
                               Dict([x \in DOMAIN m \ {key} |-> m[x]])]]
             ELSE [err |-> "MissingKeyError", heap |-> h]
    ELSE [err |-> "TypeError", heap |-> h]

\* del dct[key] for a str key
py_delitem(h, dct, key) ==
    IF IsDict(h, dct)
    THEN LET m == h[dct.v].m
         IN  IF key \in DOMAIN m
             THEN [err |-> "",
                   heap |-> [h EXCEPT ![dct.v] =
                               Dict([x \in DOMAIN m \ {key} |-> m[x]])]]
             ELSE [err |-> "KeyError", heap |-> h]
    ELSE [err |-> "TypeError", heap |-> h]

(***************************************************************************)
(* aget, mget, mset, mdel.                                                 *)
(***************************************************************************)
RECURSIVE aget_leaf_is_missing(_, _, _)
aget_leaf_is_missing(h, dct, key) ==
    IF Len(key) = 0 THEN Ok(dct)
    ELSE LET head == Head(key)
         IN  IF IsList(h, dct)
             THEN LET idx == py_int(head)
                  IN  IF idx.err # ""
                      THEN Raise("IndexNotIntegerError")
                      ELSE LET value == py_list_getitem(h[dct.v].m, idx.val)
                           IN  IF value.err # ""
                               THEN Raise("IndexOutOfRange")
                               ELSE aget_leaf_is_missing(h, value.val,
                                                         Tail(key))
             ELSE LET value == py_getitem(h, dct, head)
                  IN  IF value.err # ""
                      THEN Raise("MissingKeyError")
                      ELSE aget_leaf_is_missing(h, value.val, Tail(key))

RECURSIVE aget(_, _, _)
aget(h, dct, key) ==
    IF Len(key) = 0 THEN Ok(dct)
    ELSE LET head == Head(key)
         IN  IF IsList(h, dct)
             THEN LET idx == py_int(head)
                  IN  IF idx.err # ""
                      THEN Raise("IndexNotIntegerError")
                      ELSE LET value == py_list_getitem(h[dct.v].m, idx.val)
                           IN  IF value.err # ""
                               THEN Raise("IndexOutOfRange")
                               ELSE aget(h, value.val, Tail(key))
             ELSE LET value == py_getitem(h, dct, head)
                  IN  IF value.err = "KeyError"
                      THEN Raise("MissingKeyError")
                      ELSE IF value.err # ""
                      THEN Raise("NonDictLikeTypeError")
                      ELSE aget(h, value.val, Tail(key))

\* a tokenizer without escaping: no character of a path is the Cut mark
mget_no_escape(h, dct, key) == aget(h, dct, tokenize(key, DefaultSep, Cut))

mget(h, dct, key) == aget(h, dct, tokenize(key, DefaultSep, DefaultQuote))

RECURSIVE mset_from_stays(_, _, _, _, _)
mset_from_stays(h, dct, tokens, i, value) ==
    IF i > Len(tokens)
    THEN py_setitem(h, dct, tokens[Len(tokens)], value)
    ELSE LET last == tokens[i - 1]
             r == aget(h, dct, <<last>>)
         IN  IF r.err = "MissingKeyError"
             THEN LET new == Ref(Len(h) + 1)
                      h2 == py_setitem(Append(h, EmptyDict), dct, last, new)
                  IN  mset_from_stays(h2.heap, dct, tokens, i + 1, value)
             ELSE IF r.err # ""
             THEN [err |-> r.err, heap |-> h]
             ELSE mset_from_stays(h, r.val, tokens, i + 1, value)

\* the loop of mset from token i on, `last' being tokens[i - 1]
RECURSIVE mset_from(_, _, _, _, _)
mset_from(h, dct, tokens, i, value) ==
    IF i > Len(tokens)
    THEN py_setitem(h, dct, tokens[Len(tokens)], value)
    ELSE LET last == tokens[i - 1]
             r == aget(h, dct, <<last>>)
         IN  IF r.err = "MissingKeyError"
             THEN LET new == Ref(Len(h) + 1)
                      h2 == py_setitem(Append(h, EmptyDict), dct, last, new)
                  IN  mset_from(h2.heap, new, tokens, i + 1, value)
             ELSE IF r.err # ""
             THEN [err |-> r.err, heap |-> h]
             ELSE mset_from(h, r.val, tokens, i + 1, value)

mset(h, dct, key, value) ==
    mset_from(h, dct, tokenize(key, DefaultSep, DefaultQuote), 2, value)

RECURSIVE mdel_from(_, _, _, _)
mdel_from(h, dct, tokens, i) ==
    IF i > Len(tokens)
    THEN py_delitem(h, dct, tokens[Len(tokens)])
    ELSE LET r == aget(h, dct, <<tokens[i - 1]>>)
         IN  IF r.err # ""
             THEN [err |-> r.err, heap |-> h]
             ELSE mdel_from(h, r.val, tokens, i + 1)

mdel(h, dct, key) ==
    mdel_from(h, dct, tokenize(key, DefaultSep, DefaultQuote), 2)

(***************************************************************************)
(* The navigator specification: the caller's tree, then calls of mget,     *)
(* aget, mset and mdel on its root.                                        *)
(***************************************************************************)
Root == Ref(1)

\* the characters of the paths given to mget / mset / mdel
PathAlphabet == {"a", ".", "\\", "1", "-"}

\* PathsWithin[n]: the paths of at most n characters
PathsWithin == [n \in 0..MaxInput |-> StringsUpTo(PathAlphabet, n)]

Paths == PathsWithin[MaxInput - 1]

\* the paths a call may still be given
Affordable == IF spent < MaxInput THEN PathsWithin[MaxInput - 1 - spent] ELSE {}

\* the value mset stores (no tree of SeedHeaps holds it)
NewValue == Leaf(9)

\* the trees the caller starts from
\*   {'a': {'a': 1, '': {'a': 2}}, 'a.a': 3, 'a.1': 4, '': 5}
\*   {'a': [1, {'a': 2}, [3]], '': [6, {'': 5}]}
\*   {}
\*   [1, {'': 2}]
SeedHeaps ==
    { << Dict((<<"a">> :> Ref(2)) @@ (<<"a", ".", "a">> :> Leaf(3))
              @@ (<<"a", ".", "1">> :> Leaf(4)) @@ (<<>> :> Leaf(5))),
         Dict((<<"a">> :> Leaf(1)) @@ (<<>> :> Ref(3))),
         Dict(<<"a">> :> Leaf(2)) >>,
      << Dict((<<"a">> :> Ref(2)) @@ (<<>> :> Ref(5))),
         List(<<Leaf(1), Ref(3), Ref(4)>>),
         Dict(<<"a">> :> Leaf(2)),
         List(<<Leaf(3)>>),
         List(<<Leaf(6), Ref(6)>>),
         Dict(<<>> :> Leaf(5)) >>,
      << EmptyDict >>,
      << List(<<Leaf(1), Ref(2)>>),
         Dict(<<>> :> Leaf(2)) >> }

TokTrivial ==
    /\ tpc = "off"
    /\ tsep = DefaultSep
    /\ tqc = DefaultQuote
    /\ tstr = <<>>
    /\ ttoks = <<>>
    /\ tstr2 = <<>>
    /\ ttoks2 = <<>>

InitNav ==
    /\ mdr = NoReader
    /\ gr = NoGraph
    /\ TokTrivial
    /\ heap \in SeedHeaps
    /\ spent = 0
    /\ op = NoOp
    /\ clsf = NoCls
    /\ vw = NoViews

\* mget(dct, key)
MGet(key) ==
    /\ spent + Len(key) + 1 <= MaxInput
    /\ op' = [name |-> "mget", key |-> key, value |-> Leaf(0),
              res |-> mget(heap, Root, key), pre |-> heap]
    /\ spent' = spent + Len(key) + 1
    /\ UNCHANGED <<heap, tpc, tsep, tqc, tstr, ttoks, tstr2, ttoks2, clsf, vw,
                   mdr, gr>>

\* aget(dct, ()): the explicitly empty token sequence
AGetEmpty ==
    /\ spent + 1 <= MaxInput
    /\ op' = [name |-> "aget", key |-> <<>>, value |-> Leaf(0),
              res |-> aget(heap, Root, <<>>), pre |-> heap]
    /\ spent' = spent + 1
    /\ UNCHANGED <<heap, tpc, tsep, tqc, tstr, ttoks, tstr2, ttoks2, clsf, vw,
                   mdr, gr>>

\* mset(dct, key, value): the heap is what the call left, also when it
\* raised
MSet(key, value) ==
    /\ spent + Len(key) + 1 <= MaxInput
    /\ LET r == mset(heap, Root, key, value)
       IN  /\ heap' = r.heap
           /\ op' = [name |-> "mset", key |-> key, value |-> value,
                     res |-> Raise(r.err), pre |-> heap]
    /\ spent' = spent + Len(key) + 1
    /\ UNCHANGED <<tpc, tsep, tqc, tstr, ttoks, tstr2, ttoks2, clsf, vw,
                   mdr, gr>>

\* mdel(dct, key)
MDel(key) ==
    /\ spent + Len(key) + 1 <= MaxInput
    /\ LET r == mdel(heap, Root, key)
       IN  /\ heap' = r.heap
           /\ op' = [name |-> "mdel", key |-> key, value |-> Leaf(0),
                     res |-> Raise(r.err), pre |-> heap]
    /\ spent' = spent + Len(key) + 1
    /\ UNCHANGED <<tpc, tsep, tqc, tstr, ttoks, tstr2, ttoks2, clsf, vw,
                   mdr, gr>>

NextNav ==
    \/ \E key \in Affordable : MGet(key)
    \/ AGetEmpty
    \/ \E key \in Affordable : MSet(key, NewValue)
    \/ \E key \in Affordable : MDel(key)

SpecNav == InitNav /\ [][NextNav]_vars

(***************************************************************************)
(* Claims about the navigator.  The walk of the specification is written   *)
(* independently of aget: NodeAt goes back from the last token and knows   *)
(* nothing of exceptions.                                                  *)
(***************************************************************************)
NoValue == [k |-> "none", v |-> 0]

AllDigits(s, from) == \A i \in from..Len(s) : s[i] \in Digits

IsIntegerToken(tok) ==
    \/ Len(tok) >= 1 /\ AllDigits(tok, 1)
    \/ Len(tok) >= 2 /\ tok[1] = "-" /\ AllDigits(tok, 2)

RECURSIVE Pow10(_)
Pow10(n) == IF n = 0 THEN 1 ELSE 10 * Pow10(n - 1)

RECURSIVE SumOver(_, _)
SumOver(S, f) ==
    IF S = {} THEN 0
    ELSE LET x == CHOOSE y \in S : TRUE IN f[x] + SumOver(S \ {x}, f)

IntegerOf(tok) ==
    LET neg == tok[1] = "-"
        from == IF neg THEN 2 ELSE 1
        mag == SumOver(from..Len(tok),
                       [i \in from..Len(tok) |->
                           DigitValue(tok[i]) * Pow10(Len(tok) - i)])
    IN  IF neg THEN 0 - mag ELSE mag

\* the child a token selects in a node, NoValue when it selects none
RefChild(h, node, tok) ==
    IF IsDict(h, node)
    THEN IF tok \in DOMAIN h[node.v].m THEN h[node.v].m[tok] ELSE NoValue
    ELSE IF IsList(h, node) /\ IsIntegerToken(tok)
    THEN LET n == Len(h[node.v].m)
             i == IntegerOf(tok)
         IN  IF 0 <= i /\ i < n THEN h[node.v].m[i + 1]
             ELSE IF 0 - n <= i /\ i <= -1 THEN h[node.v].m[n + i + 1]
             ELSE NoValue
    ELSE NoValue

\* the node the first n tokens lead to from root, NoValue when they lead
\* nowhere
RECURSIVE NodeAt(_, _, _, _)
NodeAt(h, root, toks, n) ==
    IF n = 0 THEN root
    ELSE LET parent == NodeAt(h, root, toks, n - 1)
         IN  IF parent = NoValue THEN NoValue
             ELSE RefChild(h, parent, toks[n])

DictsOnly(h) == \A i \in DOMAIN h : h[i].k = "dict"

OpToks == tokenize(op.key, DefaultSep, DefaultQuote)

IsPrefix(p, q) == Len(p) <= Len(q) /\ SubSeq(q, 1, Len(p)) = p

\* C4: on a tree of Mappings and Leaves, mget fails with MissingKey when
\* the walk meets a Mapping lacking the token, with NonTraversable when it
\* meets a Leaf with a token left, and returns the node reached otherwise;
\* the path '' addresses the key '' of the root, and aget with no token at
\* all returns the root.
C4_GetOutcomes ==
    /\ (op.name = "mget" /\ DictsOnly(op.pre)) =>
          LET toks == OpToks
              n == Len(toks)
              stuck == {i \in 1..n :
                          /\ NodeAt(op.pre, Root, toks, i - 1) # NoValue
                          /\ NodeAt(op.pre, Root, toks, i) = NoValue}
          IN  /\ \A i \in stuck :
                    LET at == NodeAt(op.pre, Root, toks, i - 1)
                    IN  /\ IsDict(op.pre, at)
                            => op.res.err = "MissingKeyError"
                        /\ at.k = "leaf"
                            => op.res.err = "NonDictLikeTypeError"
              /\ stuck = {} => op.res = Ok(NodeAt(op.pre, Root, toks, n))
              /\ op.key = <<>> =>
                    /\ n = 1
                    /\ op.res = (IF <<>> \in DOMAIN op.pre[1].m
                                 THEN Ok(op.pre[1].m[<<>>])
                                 ELSE Raise("MissingKeyError"))
    /\ op.name = "aget" => op.res = Ok(Root)

\* mget has walked two Mappings and failed with NonTraversable on the Leaf
\* it met with a token left
C4_Witness ==
    /\ op.name = "mget" /\ DictsOnly(op.pre)
    /\ Len(OpToks) = 3
    /\ op.res.err = "NonDictLikeTypeError"

\* C5: when the walk of mget reaches a Sequence of length n, a token that
\* is not an integer fails with IndexNotInteger, an index 0 <= i < n
\* selects element i, an index -n <= i <= -1 selects element n + i, any
\* other integer fails with IndexOutOfRange, and the walk goes on from the
\* selected element.
C5_SequenceIndex ==
    op.name = "mget" =>
        LET toks == OpToks
        IN  \A i \in 1..Len(toks) :
               LET at == NodeAt(op.pre, Root, toks, i - 1)
               IN  (at # NoValue /\ IsList(op.pre, at)) =>
                      LET lst == op.pre[at.v].m
                          n == Len(lst)
                          tok == toks[i]
                          rest == SubSeq(toks, i + 1, Len(toks))
                      IN  IF ~IsIntegerToken(tok)
                          THEN op.res.err = "IndexNotIntegerError"
                          ELSE LET j == IntegerOf(tok)
                               IN  IF 0 <= j /\ j < n
                                   THEN op.res = aget(op.pre, lst[j + 1], rest)
                                   ELSE IF 0 - n <= j /\ j <= -1
                                   THEN op.res =
                                          aget(op.pre, lst[n + j + 1], rest)
                                   ELSE op.res.err = "IndexOutOfRange"

\* mget('a.-1') on {'a': [1, {'a': 2}, [3]], ...} has returned the last
\* element of the list of three
C5_Witness ==
    /\ op.name = "mget"
    /\ Len(OpToks) = 2
    /\ OpToks[2] = <<"-", "1">>
    /\ LET at == NodeAt(op.pre, Root, OpToks, 1)
       IN  /\ at # NoValue /\ IsList(op.pre, at)
           /\ Len(op.pre[at.v].m) = 3
           /\ op.res = Ok(op.pre[at.v].m[3])

\* keys without a separator or an escape character
PlainKeys == StringsUpTo(PathAlphabet \ {DefaultSep, DefaultQuote}, 1)

\* the root holds k1 as a Mapping and the literal key k1.k2
Ambiguous(h, k1, k2) ==
    /\ IsDict(h, Root)
    /\ k1 \in DOMAIN h[1].m
    /\ IsDict(h, h[1].m[k1])
    /\ (k1 \o <<DefaultSep>> \o k2) \in DOMAIN h[1].m

\* C6: when the root holds a key k1 whose value is a Mapping and a key that
\* is the text k1.k2, mget of the path k1.k2 looks k2 up in the Mapping at
\* k1 (MissingKey when it is absent there) and mget of the path with the
\* separator escaped returns the value at the literal key.
C6_EscapingDisambiguates ==
    op.name = "mget" =>
        \A k1, k2 \in PlainKeys :
            Ambiguous(op.pre, k1, k2) =>
                LET sub == op.pre[op.pre[1].m[k1].v].m
                IN  /\ op.key = k1 \o <<DefaultSep>> \o k2 =>
                          op.res = (IF k2 \in DOMAIN sub
                                    THEN Ok(sub[k2])
                                    ELSE Raise("MissingKeyError"))
                    /\ op.key = k1 \o <<DefaultQuote, DefaultSep>> \o k2 =>
                          op.res = Ok(op.pre[1].m[k1 \o <<DefaultSep>> \o k2])

\* mget(r'a\.1') has returned the value of the key 'a.1' although 'a' is a
\* Mapping without the key '1'
C6_Witness ==
    /\ op.name = "mget"
    /\ Ambiguous(op.pre, <<"a">>, <<"1">>)
    /\ <<"1">> \notin DOMAIN op.pre[op.pre[1].m[<<"a">>].v].m
    /\ op.key = <<"a", "\\", ".", "1">>
    /\ op.res = Ok(op.pre[1].m[<<"a", ".", "1">>])

\* C7: when mset(root, P, v) succeeds, mget(root, P) right after it
\* returns v.
C7_GetAfterSet ==
    (op.name = "mset" /\ op.res.err = "") =>
        mget(heap, Root, op.key) = Ok(op.value)

\* mset has succeeded on a path of which two intermediate keys were missing
C7_Witness ==
    /\ op.name = "mset" /\ op.res.err = ""
    /\ Len(heap) = Len(op.pre) + 2
    /\ mget(heap, Root, op.key) = Ok(op.value)


\* the token sequences a path Q is taken from
QKeys == {tokenize(q, DefaultSep, DefaultQuote) : q \in Paths}

\* the number of tokens of P whose node existed before the call
Existing(pre, toks) ==
    CHOOSE j \in 0..(Len(toks) - 1) :
        /\ NodeAt(pre, Root, toks, j) # NoValue
        /\ j < Len(toks) - 1 => NodeAt(pre, Root, toks, j + 1) = NoValue

\* what a successful mset(root, P, v) changes: the last existing node on P
\* gets one key bound, to v or to the first of a chain of fresh Mappings
\* that hold one key each, and nothing else on the heap changes
SetFrame(pre, post, toks, value) ==
    LET n == Len(toks)
        j == Existing(pre, toks)
        at == NodeAt(pre, Root, toks, j)
    IN  /\ \A i \in 0..j :
              NodeAt(post, Root, toks, i) = NodeAt(pre, Root, toks, i)
        /\ Len(post) = Len(pre) + (n - 1 - j)
        /\ \A i \in (j + 1)..(n - 1) :
              LET new == NodeAt(post, Root, toks, i)
              IN  /\ new.k = "ref" /\ new.v > Len(pre)
                  /\ post[new.v].k = "dict"
                  /\ DOMAIN post[new.v].m = {toks[i + 1]}
        /\ NodeAt(post, Root, toks, n) = value
        /\ IsDict(pre, at) /\ IsDict(post, at)
        /\ DOMAIN post[at.v].m = DOMAIN pre[at.v].m \cup {toks[j + 1]}
        /\ \A x \in DOMAIN pre[at.v].m \ {toks[j + 1]} :
              post[at.v].m[x] = pre[at.v].m[x]
        /\ \A id \in 1..Len(pre) : id # at.v => post[id] = pre[id]

\* the walk of Q goes through the entry the last token of P addresses
ThroughEntry(pre, toks, q) ==
    LET parent == NodeAt(pre, Root, toks, Len(toks) - 1)
    IN  /\ parent # NoValue
        /\ \E i \in 1..Len(q) :
              /\ NodeAt(pre, Root, q, i - 1) = parent
              /\ q[i] = toks[Len(toks)]

\* C8 as stated: a successful mset(root, P, v) only binds the last token of
\* P to v and each missing strict prefix of P to a fresh Mapping holding
\* the next key alone, replaces no node that existed at a strict prefix of
\* P, and every path Q that resolved before and is neither P nor an
\* extension of P resolves to the same value afterwards.
C8_FrameEveryOtherPath ==
    (op.name = "mset" /\ op.res.err = "") =>
        /\ SetFrame(op.pre, heap, OpToks, op.value)
        /\ \A q \in QKeys :
              (aget(op.pre, Root, q).err = "" /\ ~IsPrefix(OpToks, q)) =>
                  aget(heap, Root, q) = aget(op.pre, Root, q)

\* C8 amended: the same frame, and every path Q that resolved before and
\* whose walk does not go through the entry that the last token of P
\* addresses resolves to the same value afterwards (in a Sequence an
\* element has several spellings, 1 and -1 in a list of two, so Q may reach
\* the entry of P without being P or an extension of P).
C8_FrameOtherEntries ==
    (op.name = "mset" /\ op.res.err = "") =>
        /\ SetFrame(op.pre, heap, OpToks, op.value)
        /\ \A q \in QKeys :
              (aget(op.pre, Root, q).err = ""
                 /\ ~ThroughEntry(op.pre, OpToks, q)) =>
                  aget(heap, Root, q) = aget(op.pre, Root, q)

\* mset has created a fresh Mapping under an existing one that kept its
\* other keys
C8_Witness ==
    /\ op.name = "mset" /\ op.res.err = ""
    /\ Len(OpToks) = 3
    /\ Existing(op.pre, OpToks) = 1
    /\ Cardinality(DOMAIN
          op.pre[NodeAt(op.pre, Root, OpToks, 1).v].m) = 2
    /\ SetFrame(op.pre, heap, OpToks, op.value)

\* C9: when mdel(root, P) succeeds, mget(root, P) right after it fails with
\* MissingKey, and the parent of the last token is the same container,
\* without that key and with its other keys unchanged.
C9_GetAfterDelete ==
    (op.name = "mdel" /\ op.res.err = "") =>
        LET toks == OpToks
            n == Len(toks)
            parent == NodeAt(op.pre, Root, toks, n - 1)
        IN  /\ mget(heap, Root, op.key).err = "MissingKeyError"
            /\ parent # NoValue
            /\ IsDict(op.pre, parent)
            /\ toks[n] \in DOMAIN op.pre[parent.v].m
            /\ NodeAt(heap, Root, toks, n - 1) = parent
            /\ IsDict(heap, parent)
            /\ DOMAIN heap[parent.v].m = DOMAIN op.pre[parent.v].m \ {toks[n]}
            /\ \A x \in DOMAIN heap[parent.v].m :
                  heap[parent.v].m[x] = op.pre[parent.v].m[x]
            /\ \A id \in 1..Len(op.pre) : id # parent.v => heap[id] = op.pre[id]
            /\ Len(heap) = Len(op.pre)

\* mdel has removed one of the two keys of a nested Mapping
C9_Witness ==
    /\ op.name = "mdel" /\ op.res.err = ""
    /\ Len(OpToks) = 2
    /\ LET parent == NodeAt(op.pre, Root, OpToks, 1)
       IN  /\ Cardinality(DOMAIN op.pre[parent.v].m) = 2
           /\ Cardinality(DOMAIN heap[parent.v].m) = 1
    /\ mget(heap, Root, op.key).err = "MissingKeyError"

\* the last token of P is not a key of the Mapping its other tokens lead to
FinalKeyMissing(pre, toks) ==
    LET parent == NodeAt(pre, Root, toks, Len(toks) - 1)
    IN  /\ parent # NoValue
        /\ IsDict(pre, parent)
        /\ toks[Len(toks)] \notin DOMAIN pre[parent.v].m

\* a traversal error met before the parent is the one aget reports for the
\* tokens before the last, and the tree is unchanged
DelTraversalErrors ==
    (op.name = "mdel"
       /\ NodeAt(op.pre, Root, OpToks, Len(OpToks) - 1) = NoValue) =>
        /\ op.res.err =
              aget(op.pre, Root, SubSeq(OpToks, 1, Len(OpToks) - 1)).err
        /\ op.res.err # ""
        /\ heap = op.pre

\* C10 as stated: mdel(root, P) whose last token is not a key of the parent
\* Mapping fails with MissingKey, the error kind mget reports for it, and
\* leaves the tree unchanged; traversal errors before the parent are those
\* of get.
C10_DeleteMissingIsMissingKey ==
    /\ (op.name = "mdel" /\ FinalKeyMissing(op.pre, OpToks)) =>
          /\ op.res.err = "MissingKeyError"
          /\ op.res.err = mget(op.pre, Root, op.key).err
          /\ heap = op.pre
    /\ DelTraversalErrors

\* C10 amended: mdel(root, P) whose last token is not a key of the parent
\* Mapping fails with Python's plain KeyError, the base class of the
\* MissingKeyError that mget raises for the same path and not that class
\* itself, and leaves the tree unchanged; traversal errors before the
\* parent are those of get.
C10_DeleteMissingIsKeyError ==
    /\ (op.name = "mdel" /\ FinalKeyMissing(op.pre, OpToks)) =>
          /\ op.res.err = "KeyError"
          /\ mget(op.pre, Root, op.key).err = "MissingKeyError"
          /\ IsInstance(mget(op.pre, Root, op.key).err, op.res.err)
          /\ ~IsInstance(op.res.err, "MissingKeyError")
          /\ heap = op.pre
    /\ DelTraversalErrors

\* mdel has failed on a missing last key below an existing Mapping
C10_Witness ==
    /\ op.name = "mdel"
    /\ Len(OpToks) = 2
    /\ FinalKeyMissing(op.pre, OpToks)
    /\ op.res.err = "KeyError"
    /\ heap = op.pre

(***************************************************************************)
(* Claims about the tokenizer.                                             *)
(***************************************************************************)
\* the number of escape characters standing immediately before position i
RECURSIVE EscRun(_, _, _)
EscRun(s, i, qc) ==
    IF i > 1 /\ s[i - 1] = qc THEN 1 + EscRun(s, i - 1, qc) ELSE 0

\* position i of s is read in the NORMAL state
Unescaped(s, i, qc) == EscRun(s, i, qc) % 2 = 0

\* s is in canonical form: each escape character read in the NORMAL state
\* stands before a separator or an escape character, none ends the string
Canonical(s, sep, qc) ==
    \A i \in 1..(Len(s) + 1) :
        (i = Len(s) + 1 \/ s[i] # qc) =>
            (Unescaped(s, i, qc) \/ (i <= Len(s) /\ s[i] = sep))

\* the left-to-right NORMAL/ESCAPED scan of the specification
RECURSIVE ScanFrom(_, _, _, _, _, _, _)
ScanFrom(s, i, escaped, done, cur, sep, qc) ==
    IF i > Len(s) THEN Append(done, cur)
    ELSE IF escaped
         THEN ScanFrom(s, i + 1, FALSE, done, Append(cur, s[i]), sep, qc)
    ELSE IF s[i] = qc
         THEN ScanFrom(s, i + 1, TRUE, done, cur, sep, qc)
    ELSE IF s[i] = sep
         THEN ScanFrom(s, i + 1, FALSE, Append(done, cur), <<>>, sep, qc)
    ELSE ScanFrom(s, i + 1, FALSE, done, Append(cur, s[i]), sep, qc)

Scan(s, sep, qc) == ScanFrom(s, 1, FALSE, <<>>, <<>>, sep, qc)

UnescapedSeps(s, sep, qc) ==
    Cardinality({i \in 1..Len(s) : s[i] = sep /\ Unescaped(s, i, qc)})

\* C1 as stated: for every tokenizer config and every string s,
\* untokenize(tokenize(s)) = s.
C1_RoundTripEveryString ==
    tpc = "str_done" => tstr2 = tstr

\* C1 amended: with the default escape character and any separator,
\* untokenize(tokenize(s)) = s for every string s in canonical form (each
\* escape character that is not itself escaped stands before a separator
\* or an escape character); a string that is not in canonical form comes
\* back as a different string.
C1_RoundTripCanonical ==
    (tpc = "str_done" /\ tqc = DefaultQuote) =>
        (tstr2 = tstr <=> Canonical(tstr, tsep, tqc))

\* a canonical string with an escaped separator and an unescaped separator
\* has made the round trip
C1_Witness ==
    /\ tpc = "str_done"
    /\ tqc = DefaultQuote
    /\ Canonical(tstr, tsep, tqc)
    /\ Len(ttoks) = 2
    /\ \E i \in 1..(Len(tstr) - 1) :
          tstr[i] = tqc /\ tstr[i + 1] = tsep /\ Unescaped(tstr, i, tqc)
    /\ tstr2 = tstr

\* C2: with the default escape character, tokenize(untokenize(tokens)) =
\* tokens for every non-empty token sequence, the tokens being any strings
\* (empty, or holding the separator or the escape character); so untokenize
\* never maps two token sequences to one path.
C2_TokenizeInvertsUntokenize ==
    (tpc = "toks_done" /\ tqc = DefaultQuote) => ttoks2 = ttoks

\* a sequence with an empty token and a token holding the separator and
\* the escape character has been untokenized and tokenized back
C2_Witness ==
    /\ tpc = "toks_done"
    /\ tqc = DefaultQuote
    /\ Len(ttoks) = 2
    /\ ttoks[1] = <<>>
    /\ \E i, j \in 1..Len(ttoks[2]) :
          ttoks[2][i] = tsep /\ ttoks[2][j] = tqc
    /\ ttoks2 = ttoks

\* C3: for every config and every string s, tokenize(s) is the result of
\* the NORMAL/ESCAPED scan, has 1 + (number of unescaped separators of s)
\* tokens, and tokenize of the empty string is the single empty token.
C3_TokenizeIsScan ==
    tpc = "str_tokenized" =>
        /\ ttoks = Scan(tstr, tsep, tqc)
        /\ Len(ttoks) = 1 + UnescapedSeps(tstr, tsep, tqc)
        /\ (tstr = <<>> => ttoks = << <<>> >>)

\* a string with a leading separator, an escaped separator and a trailing
\* separator has been tokenized: empty first and last tokens
C3_Witness ==
    /\ tpc = "str_tokenized"
    /\ Len(tstr) = 4
    /\ tstr[1] = tsep /\ tstr[2] = tqc /\ tstr[3] = tsep /\ tstr[4] = tsep
    /\ ttoks = << <<>>, <<tsep>>, <<>> >>


(***************************************************************************)
(* classify / unclassify and inflate / deflate.  An entry is the pair      *)
(* (path, value); classify builds a fresh tree of dicts on a heap of its   *)
(* own, whose root has identity 1.                                         *)
(***************************************************************************)
\* is_dict_like(obj): obj has __getitem__, __iter__, get and keys; a list
\* has neither get nor keys
is_dict_like(h, val) == IsDict(h, val)

\* the inner mset of classify with one message for both conflicts
RECURSIVE classify_mset_one_message(_, _, _, _, _, _)
classify_mset_one_message(h, dct, value, deep, sep, qc) ==
    LET r == sep_fun(value, deep, sep, qc)
    IN  IF r.final
        THEN IF r.headk \in DOMAIN h[dct.v].m
             THEN [err |-> "TypeError", msg |-> "subhierarchy", heap |-> h]
             ELSE [err |-> "", msg |-> "",
                   heap |-> py_setitem(h, dct, r.headk, r.tailv).heap]
        ELSE LET h1 == IF r.headk \in DOMAIN h[dct.v].m
                       THEN h
                       ELSE py_setitem(Append(h, EmptyDict), dct, r.headk,
                                       Ref(Len(h) + 1)).heap
                 child == h1[dct.v].m[r.headk]
             IN  IF ~is_dict_like(h1, child)
                 THEN [err |-> "TypeError", msg |-> "subhierarchy",
                       heap |-> h1]
                 ELSE classify_mset_one_message(h1, child, r.tailv,
                                    IF deep < 0 THEN -1 ELSE deep - 1,
                                    sep, qc)

\* the inner mset(dct, value, sep_fun, deep) of classify: msg tells which
\* of the two TypeError messages is raised, heap is what the call left
RECURSIVE classify_mset(_, _, _, _, _, _)
classify_mset(h, dct, value, deep, sep, qc) ==
    LET r == sep_fun(value, deep, sep, qc)
    IN  IF r.final
        THEN IF r.headk \in DOMAIN h[dct.v].m
             THEN [err |-> "TypeError", msg |-> "subhierarchy", heap |-> h]
             ELSE [err |-> "", msg |-> "",
                   heap |-> py_setitem(h, dct, r.headk, r.tailv).heap]
        ELSE LET h1 == IF r.headk \in DOMAIN h[dct.v].m
                       THEN h
                       ELSE py_setitem(Append(h, EmptyDict), dct, r.headk,
                                       Ref(Len(h) + 1)).heap
                 child == h1[dct.v].m[r.headk]
             IN  IF ~is_dict_like(h1, child)
                 THEN [err |-> "TypeError", msg |-> "final", heap |-> h1]
                 ELSE classify_mset(h1, child, r.tailv,
                                    IF deep < 0 THEN -1 ELSE deep - 1,
                                    sep, qc)

\* the loop of classify from entry i on; a raising call returns no tree,
\* `at' is the entry whose insertion raised
RECURSIVE classify_from(_, _, _, _, _, _)
classify_from(h, values, i, deep, sep, qc) ==
    IF i > Len(values)
    THEN [err |-> "", msg |-> "", at |-> 0, heap |-> h]
    ELSE LET r == classify_mset(h, Ref(1), values[i], deep, sep, qc)
         IN  IF r.err # ""
             THEN [err |-> r.err, msg |-> r.msg, at |-> i, heap |-> NoHeap]
             ELSE classify_from(r.heap, values, i + 1, deep, sep, qc)

\* classify(values, sep_fun, deep) with sep_fun = mk_sep_fun(sep)
classify(values, deep, sep, qc) ==
    classify_from(<<EmptyDict>>, values, 1, deep, sep, qc)

\* unclassify emitting an empty dict as a value
RECURSIVE unclassify_emits_empty(_, _, _, _, _)
unclassify_emits_empty(h, dct, deep, sep, qc) ==
    LET m == h[dct.v].m
    IN  UNION { IF is_dict_like(h, m[k]) /\ (deep > 0 \/ deep = -1)
                   /\ DOMAIN h[m[k].v].m # {}
                THEN { join_fun(k, v2, FALSE, sep, qc) :
                         v2 \in unclassify_emits_empty(h, m[k],
                                           IF deep < 0 THEN -1 ELSE deep - 1,
                                           sep, qc) }
                ELSE { join_fun(k, m[k], TRUE, sep, qc) }
              : k \in DOMAIN m }

\* unclassify whose join function leaves a final key as it is
RECURSIVE unclassify_final_unquoted(_, _, _, _, _)
unclassify_final_unquoted(h, dct, deep, sep, qc) ==
    LET m == h[dct.v].m
    IN  UNION { IF is_dict_like(h, m[k]) /\ (deep > 0 \/ deep = -1)
                THEN { join_fun(k, v2, FALSE, sep, qc) :
                         v2 \in unclassify_final_unquoted(h, m[k],
                                           IF deep < 0 THEN -1 ELSE deep - 1,
                                           sep, qc) }
                ELSE { <<k, m[k]>> }
              : k \in DOMAIN m }

\* unclassify(dct, join_fun, deep) with join_fun = mk_join_fun(sep): the
\* set of the entries the generator yields
RECURSIVE unclassify(_, _, _, _, _)
unclassify(h, dct, deep, sep, qc) ==
    LET m == h[dct.v].m
    IN  UNION { IF is_dict_like(h, m[k]) /\ (deep > 0 \/ deep = -1)
                THEN { join_fun(k, v2, FALSE, sep, qc) :
                         v2 \in unclassify(h, m[k],
                                           IF deep < 0 THEN -1 ELSE deep - 1,
                                           sep, qc) }
                ELSE { join_fun(k, m[k], TRUE, sep, qc) }
              : k \in DOMAIN m }

\* dict(pairs): the mapping built from (key, value) pairs
py_dict(pairs) ==
    [p \in {e[1] : e \in pairs} |-> CHOOSE v \in {e[2] : e \in pairs} :
                                       <<p, v>> \in pairs]

\* inflate(dct, sep, deep): dct.items() is the sequence `items'
inflate(items, sep, deep) == classify(items, deep, sep, DefaultQuote)

\* deflate(dct, sep, deep)
deflate(h, dct, sep, deep) ==
    py_dict(unclassify(h, dct, deep, sep, DefaultQuote))

(***************************************************************************)
(* The classifier specification: a sequence of entries is classified or,   *)
(* its paths being distinct, inflated as the items of a mapping; the tree  *)
(* returned, or a tree the caller holds, is unclassified and deflated.     *)
(***************************************************************************)
\* the characters of all the paths of a call, and one per entry
MaxFlat == 5

FlatAlphabet == {"a", ".", "\\"}

\* the depths a call is given
Deeps == {-1, 0, 1, 2}

\* entry i holds the value i
Numbered(paths) == [i \in 1..Len(paths) |-> <<paths[i], Leaf(i)>>]

EntrySeqs ==
    {Numbered(CutWord(w)) : w \in StringsUpTo(FlatAlphabet \cup {Cut}, MaxFlat)}

\* the trees the caller holds
\*   {'a': {'a': 1, '': {'a\\': 2}}, 'a.a': 3, '': 4}
\*   {'a': {}, '': {'': 1, '.': {}}}
\*   {}
\*   {'a': [1, {'a': 2}], '.': {'\\': 3}}
TreeSeeds ==
    { << Dict((<<"a">> :> Ref(2)) @@ (<<"a", ".", "a">> :> Leaf(3))
              @@ (<<>> :> Leaf(4))),
         Dict((<<"a">> :> Leaf(1)) @@ (<<>> :> Ref(3))),
         Dict(<<"a", "\\">> :> Leaf(2)) >>,
      << Dict((<<"a">> :> Ref(2)) @@ (<<>> :> Ref(3))),
         EmptyDict,
         Dict((<<>> :> Leaf(1)) @@ (<<".">> :> Ref(4))),
         EmptyDict >>,
      << EmptyDict >>,
      << Dict((<<"a">> :> Ref(2)) @@ (<<".">> :> Ref(4))),
         List(<<Leaf(1), Ref(3)>>),
         Dict(<<"a">> :> Leaf(2)),
         Dict(<<"\\">> :> Leaf(3)) >> }

NoResult == [err |-> "", msg |-> "", at |-> 0, heap |-> NoHeap]

NavTrivial ==
    /\ heap = NoHeap
    /\ spent = 0
    /\ op = NoOp

InitCls ==
    /\ mdr = NoReader
    /\ gr = NoGraph
    /\ TokTrivial
    /\ NavTrivial
    /\ vw = NoViews
    /\ \E deep \in Deeps :
          \/ \E es \in EntrySeqs :
                clsf = [pc |-> "entries", call |-> "", entries |-> es,
                        deep |-> deep, res |-> NoResult, deep2 |-> 0,
                        flat |-> {}, dflat |-> <<>>]
          \/ \E t \in TreeSeeds :
                clsf = [pc |-> "tree", call |-> "", entries |-> <<>>,
                        deep |-> deep,
                        res |-> [NoResult EXCEPT !.heap = t],
                        deep2 |-> 0, flat |-> {}, dflat |-> <<>>]

\* classify(entries, mk_sep_fun('.'), deep)
Classify ==
    /\ clsf.pc = "entries"
    /\ clsf' = [clsf EXCEPT
                  !.pc = "classified", !.call = "classify",
                  !.res = classify(clsf.entries, clsf.deep, DefaultSep,
                                   DefaultQuote)]
    /\ UNCHANGED <<tpc, tsep, tqc, tstr, ttoks, tstr2, ttoks2, heap, spent,
                   op, vw,
                   mdr, gr>>

\* inflate(dct, '.', deep) of a mapping iterated in the order of entries
Inflate ==
    /\ clsf.pc = "entries"
    /\ \A i, j \in 1..Len(clsf.entries) :
          clsf.entries[i][1] = clsf.entries[j][1] => i = j
    /\ clsf' = [clsf EXCEPT
                  !.pc = "classified", !.call = "inflate",
                  !.res = inflate(clsf.entries, DefaultSep, clsf.deep)]
    /\ UNCHANGED <<tpc, tsep, tqc, tstr, ttoks, tstr2, ttoks2, heap, spent,
                   op, vw,
                   mdr, gr>>

\* unclassify(tree, mk_join_fun('.'), deep2)
Unclassify(deep2) ==
    /\ clsf.pc \in {"classified", "tree"}
    /\ clsf.res.err = ""
    /\ clsf' = [clsf EXCEPT
                  !.pc = "unclassified", !.deep2 = deep2,
                  !.flat = unclassify(clsf.res.heap, Ref(1), deep2,
                                      DefaultSep, DefaultQuote)]
    /\ UNCHANGED <<tpc, tsep, tqc, tstr, ttoks, tstr2, ttoks2, heap, spent,
                   op, vw,
                   mdr, gr>>

\* deflate(tree, '.', deep2)
Deflate(deep2) ==
    /\ clsf.pc \in {"classified", "tree"}
    /\ clsf.res.err = ""
    /\ clsf' = [clsf EXCEPT
                  !.pc = "deflated", !.deep2 = deep2,
                  !.dflat = deflate(clsf.res.heap, Ref(1), DefaultSep,
                                    deep2)]
    /\ UNCHANGED <<tpc, tsep, tqc, tstr, ttoks, tstr2, ttoks2, heap, spent,
                   op, vw,
                   mdr, gr>>

NextCls ==
    \/ Classify
    \/ Inflate
    \/ \E deep2 \in Deeps : Unclassify(deep2)
    \/ \E deep2 \in Deeps : Deflate(deep2)

SpecCls == InitCls /\ [][NextCls]_vars


(***************************************************************************)
(* Claims about classify and unclassify.                                   *)
(***************************************************************************)
\* the token sequence a path is decoded into
PathToks(path) == tokenize(path, DefaultSep, DefaultQuote)

StrictPrefix(p, q) == IsPrefix(p, q) /\ p # q

Classified == clsf.pc = "classified"

C12_LastWriteWins ==
    (Classified /\ clsf.deep = -1 /\ Len(clsf.entries) = 2) =>
        LET t1 == PathToks(clsf.entries[1][1])
            t2 == PathToks(clsf.entries[2][1])
        IN  t1 = t2 =>
              /\ clsf.res.err = ""
              /\ NodeAt(clsf.res.heap, Ref(1), t2, Len(t2))
                    = clsf.entries[2][2]

\* no path of the entries decodes to a prefix of, or to the same tokens
\* as, the path of another entry
PrefixFree(es) ==
    \A i, j \in 1..Len(es) :
        i # j => ~IsPrefix(PathToks(es[i][1]), PathToks(es[j][1]))

AllCanonical(es) ==
    \A i \in 1..Len(es) : Canonical(es[i][1], DefaultSep, DefaultQuote)

EntrySet(es) == {es[i] : i \in 1..Len(es)}

Unclassified == clsf.pc = "unclassified" /\ clsf.call # ""

\* C13 as stated: at unlimited depth, for entries of which no path is a
\* prefix of another or shared, whatever string each path is, classify
\* succeeds and unclassify of its tree is the set of the entries.
C13_InverseEveryPath ==
    /\ (Classified /\ clsf.deep = -1 /\ PrefixFree(clsf.entries)) =>
          clsf.res.err = ""
    /\ (Unclassified /\ clsf.deep = -1 /\ clsf.deep2 = -1
          /\ PrefixFree(clsf.entries)) =>
          clsf.flat = EntrySet(clsf.entries)

\* C13: at unlimited depth, for entries of which no path is a prefix of
\* another or shared, and whose paths are canonical (every escape
\* character stands before a separator or an escape character), classify
\* succeeds and unclassify of its tree is the set of the entries.
C13_InverseCanonical ==
    /\ (Classified /\ clsf.deep = -1 /\ PrefixFree(clsf.entries)
          /\ AllCanonical(clsf.entries)) =>
          clsf.res.err = ""
    /\ (Unclassified /\ clsf.deep = -1 /\ clsf.deep2 = -1
          /\ PrefixFree(clsf.entries) /\ AllCanonical(clsf.entries)) =>
          clsf.flat = EntrySet(clsf.entries)

C13_Witness ==
    /\ Unclassified /\ clsf.deep = -1 /\ clsf.deep2 = -1
    /\ PrefixFree(clsf.entries) /\ AllCanonical(clsf.entries)
    /\ Len(clsf.entries) = 2
    /\ \E i \in 1..2 : \E n \in 1..Len(clsf.entries[i][1]) :
          clsf.entries[i][1][n] = DefaultQuote
    /\ \E i \in 1..2 : Len(PathToks(clsf.entries[i][1])) = 2
    /\ clsf.flat = EntrySet(clsf.entries)

\* the code point of a character of the model
CodePoint(c) ==
    CASE c = "-" -> 45 [] c = "." -> 46 [] c = "/" -> 47 [] c = "1" -> 49
      [] c = "\\" -> 92 [] c = "^" -> 94 [] c = "a" -> 97 [] c = "|" -> 124

\* s < t for two strings
StrLess(s, t) ==
    \E n \in 0..Len(s) :
        /\ n <= Len(t)
        /\ SubSeq(s, 1, n) = SubSeq(t, 1, n)
        /\ \/ n = Len(s) /\ n < Len(t)
           \/ /\ n < Len(s) /\ n < Len(t)
              /\ CodePoint(s[n + 1]) < CodePoint(t[n + 1])

\* entries of distinct keys in ascending order of their raw keys
SortedByKey(es) ==
    [i \in 1..Len(es) |->
        CHOOSE e \in EntrySet(es) :
            Cardinality({f \in EntrySet(es) : StrLess(f[1], e[1])}) = i - 1]

\* C14: inflate inserts the entries in ascending order of their raw keys,
\* so the outcome for a mapping (the tree, or the entry at which TypeError
\* is raised and the message) is the one of classifying its sorted items,
\* whatever order the mapping is iterated in.
C14_InflateSortsKeys ==
    (Classified /\ clsf.call = "inflate") =>
        LET sorted == SortedByKey(clsf.entries)
            r == clsf.res
            r2 == classify(sorted, clsf.deep, DefaultSep, DefaultQuote)
        IN  /\ r.err = r2.err
            /\ r.msg = r2.msg
            /\ r.err # "" => clsf.entries[r.at] = sorted[r2.at]
            /\ r.err = "" =>
                  unclassify(r.heap, Ref(1), -1, DefaultSep, DefaultQuote)
                    = unclassify(r2.heap, Ref(1), -1, DefaultSep,
                                 DefaultQuote)

\* the positions of the unescaped separators of a path
SepPositions(s) ==
    {i \in 1..Len(s) : s[i] = DefaultSep /\ Unescaped(s, i, DefaultQuote)}

\* the keys a path is stored under with a budget of d splits: the decoded
\* tokens before its d-th unescaped separator, then the rest as it is
KeysAtDepth(s, d) ==
    IF d < 0 \/ Cardinality(SepPositions(s)) < d
    THEN Scan(s, DefaultSep, DefaultQuote)
    ELSE IF d = 0 THEN <<s>>
    ELSE LET p == CHOOSE i \in SepPositions(s) :
                      Cardinality({j \in SepPositions(s) : j < i}) = d - 1
         IN  Scan(SubSeq(s, 1, p - 1), DefaultSep, DefaultQuote)
               \o <<SubSeq(s, p + 1, Len(s))>>

\* the values met when descending at most d levels below a Mapping
RECURSIVE ValuesWithin(_, _, _)
ValuesWithin(h, node, d) ==
    LET m == h[node.v].m
    IN  UNION { IF IsDict(h, m[k]) /\ (d > 0 \/ d = -1)
                THEN ValuesWithin(h, m[k], IF d < 0 THEN -1 ELSE d - 1)
                ELSE {m[k]}
              : k \in DOMAIN m }

\* inflate with depth d >= 0 splits a key at its first d unescaped
\* separators at most and stores the rest as one key, with depth 0 it
\* returns the input mapping, with depth -1 it splits at every unescaped
\* separator
C15_InflateBudget ==
    (Classified /\ clsf.res.err = "") =>
        /\ \A i \in 1..Len(clsf.entries) :
              LET ks == KeysAtDepth(clsf.entries[i][1], clsf.deep)
              IN  /\ clsf.deep >= 0 => Len(ks) <= clsf.deep + 1
                  /\ NodeAt(clsf.res.heap, Ref(1), ks, Len(ks))
                        = clsf.entries[i][2]
        /\ clsf.deep = 0 =>
              clsf.res.heap
                = <<Dict([p \in {e[1] : e \in EntrySet(clsf.entries)} |->
                           CHOOSE v \in {e[2] : e \in EntrySet(clsf.entries)} :
                               <<p, v>> \in EntrySet(clsf.entries)])>>

\* deflate with depth d descends at most d levels and emits a Mapping
\* found at that depth as a value
C15_DeflateBudget ==
    clsf.pc = "deflated" =>
        {clsf.dflat[p] : p \in DOMAIN clsf.dflat}
          = ValuesWithin(clsf.res.heap, Ref(1), clsf.deep2)

\* deflate with depth 0 returns a mapping equal to its input
C15_DeflateZeroIsInput ==
    (clsf.pc = "deflated" /\ clsf.deep2 = 0) =>
        /\ DOMAIN clsf.dflat = DOMAIN clsf.res.heap[1].m
        /\ \A p \in DOMAIN clsf.res.heap[1].m :
              clsf.dflat[p] = clsf.res.heap[1].m[p]

\* C15: a depth d >= 0 bounds the splitting of inflate (at most the first
\* d separators of a key, the rest of the key being one key at depth d;
\* depth 0 returns the input, depth -1 splits at every unescaped
\* separator) and the descent of deflate (at most d levels, a Mapping at
\* that depth being emitted as a value; depth 0 returns the input).
C15_DepthBudget ==
    /\ C15_InflateBudget
    /\ C15_DeflateBudget
    /\ C15_DeflateZeroIsInput

\* the leaves below a Mapping, each with the sequence of keys leading to it
RECURSIVE LeafPaths(_, _)
LeafPaths(h, node) ==
    LET m == h[node.v].m
    IN  UNION { IF IsDict(h, m[k])
                THEN { <<(<<k>> \o e[1]), e[2]>> : e \in LeafPaths(h, m[k]) }
                ELSE { <<(<<k>>), m[k]>> }
              : k \in DOMAIN m }

\* C16: at unlimited depth unclassify of a tree of string-keyed Mappings
\* yields exactly one entry per Leaf, its path being untokenize of the
\* keys leading to the Leaf; no two entries have the same path, and an
\* empty Mapping yields no entry.
C16_OneEntryPerLeaf ==
    (clsf.pc = "unclassified" /\ clsf.deep2 = -1
       /\ DictsOnly(clsf.res.heap)) =>
        LET leaves == LeafPaths(clsf.res.heap, Ref(1))
        IN  /\ clsf.flat = { <<untokenize(e[1], DefaultSep, DefaultQuote),
                               e[2]>> : e \in leaves }
            /\ Cardinality(clsf.flat) = Cardinality(leaves)
            /\ \A e, f \in clsf.flat : e[1] = f[1] => e = f
            /\ \A e \in clsf.flat : e[2].k = "leaf"

C16_Witness ==
    /\ clsf.pc = "unclassified" /\ clsf.deep2 = -1
    /\ DictsOnly(clsf.res.heap)
    /\ \E i \in DOMAIN clsf.res.heap : i > 1 /\ clsf.res.heap[i] = EmptyDict
    /\ \E e \in LeafPaths(clsf.res.heap, Ref(1)) : Len(e[1]) = 2
    /\ clsf.flat # {}


(***************************************************************************)
(* class CharTokenizer and class mdict: a view wraps a node of the         *)
(* caller's tree together with a tokenizer.                                *)
(***************************************************************************)
CharTokenizer(sep, quote_char) == [sep |-> sep, quote_char |-> quote_char]

\* CharTokenizer.tokenize: split is mk_sep_fun(self.sep, self.quote_char),
\* which hands quote_char to the parameter `strip'; the escape character
\* of the split stays the default one
ct_tokenize(tk, s) == tokenize(s, tk.sep, DefaultQuote)

\* CharTokenizer.untokenize: join is mk_join_fun(self.sep, self.quote_char)
ct_untokenize(tk, tokens) == untokenize(tokens, tk.sep, tk.quote_char)

\* CharTokenizer.quote(k)
ct_quote(tk, k) == ct_untokenize(tk, <<k>>)

\* mdict(dct, tokenizer); path is no field of the object, it records the
\* keys that led from the root of the caller's tree to dct when the view
\* was made
mdict(dct, tokenizer, path) ==
    [dct |-> dct, tokenizer |-> tokenizer, path |-> path]

\* mdict.__getitem__ wrapping a shallow copy of the child
mdict_getitem_copies(h, self, label) ==
    LET res == aget(h, self.dct, ct_tokenize(self.tokenizer, label))
    IN  IF res.err = "" /\ is_dict_like(h, res.val)
        THEN [err |-> "", val |-> Ref(Len(h) + 1), view |-> TRUE,
              heap |-> Append(h, h[res.val.v])]
        ELSE [err |-> res.err, val |-> res.val, view |-> FALSE, heap |-> h]

\* mdict.__getitem__(label): view tells that the value returned is
\* mdict(val, tokenizer=self.tokenizer)
mdict_getitem(h, self, label) ==
    LET res == aget(h, self.dct, ct_tokenize(self.tokenizer, label))
    IN  IF res.err = "" /\ is_dict_like(h, res.val)
        THEN [err |-> "", val |-> res.val, view |-> TRUE, heap |-> h]
        ELSE [err |-> res.err, val |-> res.val, view |-> FALSE, heap |-> h]

\* DictLikeAbstract.get catching LookupError
mdict_get_catches_lookup_error(h, self, label, default) ==
    LET r == mdict_getitem(h, self, label)
    IN  IF r.err # "" /\ (IsInstance(r.err, "KeyError")
                            \/ IsInstance(r.err, "IndexError"))
        THEN [err |-> "", val |-> default, view |-> FALSE, heap |-> h]
        ELSE r

\* DictLikeAbstract.get(label, default): try self[label], except KeyError
mdict_get(h, self, label, default) ==
    LET r == mdict_getitem(h, self, label)
    IN  IF r.err # "" /\ IsInstance(r.err, "KeyError")
        THEN [err |-> "", val |-> default, view |-> FALSE, heap |-> h]
        ELSE r

\* mdict.__setitem__(label, value)
mdict_setitem(h, self, label, value) ==
    mset_from(h, self.dct, ct_tokenize(self.tokenizer, label), 2, value)

\* mdict.__delitem__(key)
mdict_delitem(h, self, key) ==
    mdel_from(h, self.dct, ct_tokenize(self.tokenizer, key), 2)

\* mdict.__iter__ yielding the keys as they are
mdict_iter_unquoted(h, self) ==
    [k \in DOMAIN h[self.dct.v].m |-> k]

\* mdict.__iter__: the string yielded for each key of self.dct
mdict_iter(h, self) ==
    [k \in DOMAIN h[self.dct.v].m |-> ct_quote(self.tokenizer, k)]

\* DictLikeAbstract.__len__: len(list(self.__iter__()))
mdict_len(h, self) == Cardinality(DOMAIN mdict_iter(h, self))

(***************************************************************************)
(* kids.cache, of which mdict.flat uses cache(key=...) and                 *)
(* hippie_hashing: the value computed for a key is stored and returned for *)
(* every later call with an equal key; hippie_hashing(obj) is a            *)
(* fingerprint of the content of obj.                                      *)
(***************************************************************************)
\* the content of a value: nested mappings and sequences down to leaves
RECURSIVE Content(_, _)
Content(h, val) ==
    IF IsDict(h, val)
    THEN [k |-> "dict",
          m |-> [x \in DOMAIN h[val.v].m |-> Content(h, h[val.v].m[x])]]
    ELSE IF IsList(h, val)
    THEN [k |-> "list",
          m |-> [i \in 1..Len(h[val.v].m) |-> Content(h, h[val.v].m[i])]]
    ELSE [k |-> "leaf", m |-> val.v]

hippie_hashing(h, val) == Content(h, val)

\* the store of a cache decorator: a sequence of (key, val) records
cache_has(store, key) == \E i \in 1..Len(store) : store[i].key = key

cache_get(store, key) ==
    store[CHOOSE i \in 1..Len(store) : store[i].key = key].val

cache_put(store, key, val) == Append(store, [key |-> key, val |-> val])

\* mdict.flat whose cache key is the identity of self.dct
mdict_flat_keyed_by_identity(h, store, self) ==
    LET key == [k |-> "id", m |-> self.dct.v]
    IN  IF cache_has(store, key)
        THEN [val |-> cache_get(store, key), store |-> store]
        ELSE LET val == py_dict(unclassify(h, self.dct, -1,
                                           self.tokenizer.sep,
                                           self.tokenizer.quote_char))
             IN  [val |-> val, store |-> cache_put(store, key, val)]

\* mdict.flat: @cache(key=lambda s: hippie_hashing(s.dct)) around
\* dict(unclassify(self.dct, join_fun=self.tokenizer.join))
mdict_flat(h, store, self) ==
    LET key == hippie_hashing(h, self.dct)
    IN  IF cache_has(store, key)
        THEN [val |-> cache_get(store, key), store |-> store]
        ELSE LET val == py_dict(unclassify(h, self.dct, -1,
                                           self.tokenizer.sep,
                                           self.tokenizer.quote_char))
             IN  [val |-> val, store |-> cache_put(store, key, val)]

(***************************************************************************)
(* The view specification: the caller wraps its tree in a mdict, then      *)
(* reads, writes and deletes through that view and through the views that  *)
(* __getitem__ returned.                                                   *)
(***************************************************************************)
\* the characters of the paths given to a view
ViewAlphabet == {"a", ".", "\\", "1"}

ViewPathsWithin == [n \in 0..MaxInput |-> StringsUpTo(ViewAlphabet, n)]

ViewAffordable ==
    IF spent < MaxInput THEN ViewPathsWithin[MaxInput - 1 - spent] ELSE {}

\* the value get returns for a missing key (no tree holds it)
DefaultValue == Leaf(7)

\* the trees the caller wraps
\*   {'a': {'a': 1, '': {'a': 2}}, 'a.a': 3, '': 5}
\*   {'a': [{'a': 2}], '': {'': 5, 'a\\': {}}}
ViewSeeds ==
    { << Dict((<<"a">> :> Ref(2)) @@ (<<"a", ".", "a">> :> Leaf(3))
              @@ (<<>> :> Leaf(5))),
         Dict((<<"a">> :> Leaf(1)) @@ (<<>> :> Ref(3))),
         Dict(<<"a">> :> Leaf(2)) >>,
      << Dict((<<"a">> :> Ref(2)) @@ (<<>> :> Ref(4))),
         List(<<Ref(3)>>),
         Dict(<<"a">> :> Leaf(2)),
         Dict((<<>> :> Leaf(5)) @@ (<<"a", "\\">> :> Ref(5))),
         EmptyDict >> }

InitView ==
    /\ mdr = NoReader
    /\ gr = NoGraph
    /\ TokTrivial
    /\ clsf = NoCls
    /\ heap \in ViewSeeds
    /\ spent = 0
    /\ op = NoOp
    /\ vw = [pc |-> "on",
             views |-> <<mdict(Root, CharTokenizer(DefaultSep, DefaultQuote),
                               <<>>)>>,
             store |-> <<>>]

\* the views the caller holds after a call returned `new'
Holding(views, new) ==
    IF \E i \in 1..Len(views) : views[i] = new THEN views
    ELSE Append(views, new)

\* v = d[key] for the view d = views[i]
GetItem(i, key) ==
    /\ spent + Len(key) + 1 <= MaxInput
    /\ LET self == vw.views[i]
           r == mdict_getitem(heap, self, key)
       IN  /\ heap' = r.heap
           /\ vw' = [vw EXCEPT !.views =
                       IF r.view
                       THEN Holding(@, mdict(r.val, self.tokenizer,
                              self.path \o ct_tokenize(self.tokenizer, key)))
                       ELSE @]
           /\ op' = [name |-> "getitem", view |-> i, key |-> key,
                     value |-> Leaf(0), res |-> r, pre |-> heap]
    /\ spent' = spent + Len(key) + 1
    /\ UNCHANGED <<tpc, tsep, tqc, tstr, ttoks, tstr2, ttoks2, clsf,
                   mdr, gr>>

\* d.get(key, default)
Get(i, key) ==
    /\ spent + Len(key) + 1 <= MaxInput
    /\ LET r == mdict_get(heap, vw.views[i], key, DefaultValue)
       IN  /\ heap' = r.heap
           /\ op' = [name |-> "get", view |-> i, key |-> key,
                     value |-> DefaultValue, res |-> r, pre |-> heap]
    /\ spent' = spent + Len(key) + 1
    /\ UNCHANGED <<tpc, tsep, tqc, tstr, ttoks, tstr2, ttoks2, clsf, vw,
                   mdr, gr>>

\* d[key] = value
SetItem(i, key, value) ==
    /\ spent + Len(key) + 1 <= MaxInput
    /\ LET r == mdict_setitem(heap, vw.views[i], key, value)
       IN  /\ heap' = r.heap
           /\ op' = [name |-> "setitem", view |-> i, key |-> key,
                     value |-> value, res |-> Raise(r.err), pre |-> heap]
    /\ spent' = spent + Len(key) + 1
    /\ UNCHANGED <<tpc, tsep, tqc, tstr, ttoks, tstr2, ttoks2, clsf, vw,
                   mdr, gr>>

\* del d[key]
DelItem(i, key) ==
    /\ spent + Len(key) + 1 <= MaxInput
    /\ LET r == mdict_delitem(heap, vw.views[i], key)
       IN  /\ heap' = r.heap
           /\ op' = [name |-> "delitem", view |-> i, key |-> key,
                     value |-> Leaf(0), res |-> Raise(r.err), pre |-> heap]
    /\ spent' = spent + Len(key) + 1
    /\ UNCHANGED <<tpc, tsep, tqc, tstr, ttoks, tstr2, ttoks2, clsf, vw,
                   mdr, gr>>

\* d.keys()
Keys(i) ==
    /\ spent + 1 <= MaxInput
    /\ op' = [name |-> "keys", view |-> i, key |-> <<>>, value |-> Leaf(0),
              res |-> mdict_iter(heap, vw.views[i]), pre |-> heap]
    /\ spent' = spent + 1
    /\ UNCHANGED <<heap, tpc, tsep, tqc, tstr, ttoks, tstr2, ttoks2, clsf,
                   vw,
                   mdr, gr>>

\* d.flat
Flat(i) ==
    /\ spent + 1 <= MaxInput
    /\ LET r == mdict_flat(heap, vw.store, vw.views[i])
       IN  /\ vw' = [vw EXCEPT !.store = r.store]
           /\ op' = [name |-> "flat", view |-> i, key |-> <<>>,
                     value |-> Leaf(0), res |-> r.val, pre |-> heap]
    /\ spent' = spent + 1
    /\ UNCHANGED <<heap, tpc, tsep, tqc, tstr, ttoks, tstr2, ttoks2, clsf,
                   mdr, gr>>

NextView ==
    \/ \E i \in 1..Len(vw.views) : \E key \in ViewAffordable :
          GetItem(i, key)
    \/ \E i \in 1..Len(vw.views) : \E key \in ViewAffordable :
          Get(i, key)
    \/ \E i \in 1..Len(vw.views) : \E key \in ViewAffordable :
          SetItem(i, key, NewValue)
    \/ \E i \in 1..Len(vw.views) : \E key \in ViewAffordable :
          DelItem(i, key)
    \/ \E i \in 1..Len(vw.views) : Keys(i)
    \/ \E i \in 1..Len(vw.views) : Flat(i)

SpecView == InitView /\ [][NextView]_vars


(***************************************************************************)
(* Claims about views.                                                     *)
(***************************************************************************)
\* the view a call was made on, and the tokens of its key
OpView == vw.views[op.view]

ViewToks == ct_tokenize(OpView.tokenizer, op.key)

\* the node a view wraps is still the one its path leads to from the root
Attached(h, v) == NodeAt(h, Root, v.path, Len(v.path)) = v.dct

\* the token sequences a read is tried with
Probes == {tokenize(p, DefaultSep, DefaultQuote) : p \in ViewPathsWithin[2]}
            \cup {<<>>}

ReadsTree(v) ==
    \A q \in Probes : aget(heap, v.dct, q) = aget(heap, Root, v.path \o q)

\* C17 as stated: after any sequence of calls, every view reads the
\* current state of the tree: a read through a view gives what the same
\* read gives from the root of the caller's tree below the path of the
\* view.
C17_EveryViewReadsTree ==
    vw.pc = "on" => \A n \in 1..Len(vw.views) : ReadsTree(vw.views[n])

\* C17: __getitem__ on a Mapping-valued key copies nothing and returns a
\* view of the very node stored in the tree; as long as that node is the
\* one its path leads to (no call has deleted or replaced it in its
\* parent), every read through the view gives what the same read gives
\* from the root of the caller's tree, and a set or a delete made through
\* the view is seen from the root.
C17_ViewsShareTree ==
    /\ (op.name = "getitem" /\ op.res.view) =>
          /\ heap = op.pre
          /\ op.res.val = NodeAt(op.pre, OpView.dct, ViewToks, Len(ViewToks))
    /\ vw.pc = "on" =>
          \A n \in 1..Len(vw.views) :
              Attached(heap, vw.views[n]) => ReadsTree(vw.views[n])
    /\ (op.name = "setitem" /\ op.res.err = "" /\ Attached(op.pre, OpView)) =>
          aget(heap, Root, OpView.path \o ViewToks) = Ok(op.value)
    /\ (op.name = "delitem" /\ op.res.err = "" /\ Attached(op.pre, OpView)) =>
          aget(heap, Root, OpView.path \o ViewToks).err = "MissingKeyError"

C17_Witness ==
    /\ op.name = "setitem" /\ op.res.err = "" /\ op.view > 1
    /\ Attached(op.pre, OpView)
    /\ aget(op.pre, Root, OpView.path \o ViewToks).err = "MissingKeyError"
    /\ aget(heap, Root, OpView.path \o ViewToks) = Ok(op.value)

\* C18: iterating the keys of a view yields one string per direct key of
\* the wrapped Mapping, no two alike, so that the length is the number of
\* direct keys; each string is the key with its separators and escape
\* characters escaped, and __getitem__ of that string on the same view
\* returns the direct child stored under the key.
C18_KeysAddressChildren ==
    op.name = "keys" =>
        LET m == heap[OpView.dct.v].m
        IN  /\ DOMAIN op.res = DOMAIN m
            /\ mdict_len(heap, OpView) = Cardinality(DOMAIN m)
            /\ \A k1, k2 \in DOMAIN m : op.res[k1] = op.res[k2] => k1 = k2
            /\ \A k \in DOMAIN m :
                  /\ Canonical(op.res[k], DefaultSep, DefaultQuote)
                  /\ Scan(op.res[k], DefaultSep, DefaultQuote) = <<k>>
                  /\ mdict_getitem(heap, OpView, op.res[k]).err = ""
                  /\ mdict_getitem(heap, OpView, op.res[k]).val = m[k]

C18_Witness ==
    /\ op.name = "keys"
    /\ \E k \in DOMAIN op.res :
          /\ \E n \in 1..Len(k) : k[n] = DefaultSep
          /\ op.res[k] # k
          /\ mdict_getitem(heap, OpView, op.res[k]).val
                = heap[OpView.dct.v].m[k]
          /\ mdict_getitem(heap, OpView, k).val # heap[OpView.dct.v].m[k]

\* C19: get(path, default) on a view returns the default exactly when the
\* lookup raises MissingKeyError, returns the value found when the lookup
\* succeeds, and lets NonDictLikeTypeError, IndexNotIntegerError and
\* IndexOutOfRange reach the caller; the tree is unchanged in every case.
C19_GetDefault ==
    op.name = "get" =>
        LET r == aget(op.pre, OpView.dct, ViewToks)
        IN  /\ heap = op.pre
            /\ r.err \in {"", "MissingKeyError", "NonDictLikeTypeError",
                          "IndexNotIntegerError", "IndexOutOfRange"}
            /\ r.err = "MissingKeyError" <=>
                  (op.res.err = "" /\ op.res.val = op.value)
            /\ r.err = "" => (op.res.err = "" /\ op.res.val = r.val)
            /\ r.err \notin {"", "MissingKeyError"} => op.res.err = r.err

C19_Witness ==
    /\ op.name = "get" /\ Len(ViewToks) = 2
    /\ aget(op.pre, OpView.dct, ViewToks).err = "MissingKeyError"
    /\ op.res.err = "" /\ op.res.val = op.value
    /\ heap = op.pre

ODict(items) == [k |-> "odict", m |-> items]

MultiDictReader(dcts) == [k |-> "reader", m |-> dcts]

od_keys(d) == [i \in 1..Len(d.m) |-> d.m[i][1]]

\* dct.__getitem__(label) of a source
od_getitem(d, label) ==
    IF \E i \in 1..Len(d.m) : d.m[i][1] = label
    THEN Ok(d.m[CHOOSE i \in 1..Len(d.m) : d.m[i][1] = label][2])
    ELSE Raise("KeyError")

\* the loop of MultiDictReader.__getitem__ from source i on; with a
\* Mapping already collected a leaf raises: the ValueError of the code is
\* never built, ", ".join(results_nb) of a list of ints raises TypeError
RECURSIVE mdr_getitem_from(_, _, _, _)
mdr_getitem_from(dcts, i, label, results) ==
    IF i > Len(dcts)
    THEN IF Len(results) = 0 THEN Raise("KeyError")
         ELSE Ok(MultiDictReader(results))
    ELSE LET res == od_getitem(dcts[i], label)
         IN  IF res.err = "KeyError"
             THEN mdr_getitem_from(dcts, i + 1, label, results)
             ELSE IF res.val.k = "odict"
             THEN mdr_getitem_from(dcts, i + 1, label,
                                   Append(results, res.val))
             ELSE IF Len(results) > 0 THEN Raise("TypeError")
             ELSE res

\* MultiDictReader.__getitem__(label)
mdr_getitem(self, label) == mdr_getitem_from(self.m, 1, label, <<>>)

\* the loops of MultiDictReader.__iter__ from key j of source i on: the
\* keys yielded, `seen' being those yielded before
RECURSIVE mdr_iter_from(_, _, _, _)
mdr_iter_from(dcts, i, j, seen) ==
    IF i > Len(dcts) THEN seen
    ELSE IF j > Len(dcts[i].m) THEN mdr_iter_from(dcts, i + 1, 1, seen)
    ELSE LET key == od_keys(dcts[i])[j]
         IN  IF \E n \in 1..Len(seen) : seen[n] = key
             THEN mdr_iter_from(dcts, i, j + 1, seen)
             ELSE mdr_iter_from(dcts, i, j + 1, Append(seen, key))

\* MultiDictReader.__iter__
mdr_iter(self) == mdr_iter_from(self.m, 1, 1, <<>>)

(***************************************************************************)
(* The cascading-reader specification: a reader over some sources is       *)
(* asked for labels and for its keys; a reader it returned is asked next.  *)
(***************************************************************************)
\* the number of sources of a reader
MaxSources == 2

Labels == {<<"x">>, <<"y">>, <<"z">>}

SourceKeys == {<<"x">>, <<"y">>}

SourceValues ==
    {Leaf(1), Leaf(2), ODict(<<>>), ODict(<< <<(<<"x">>), Leaf(3)>> >>),
     ODict(<< <<(<<"y">>), Leaf(4)>>, <<(<<"x">>), Leaf(5)>> >>)}

\* the dicts over SourceKeys, in each order of their keys
Sources ==
    {ODict(<<>>)}
      \cup {ODict(<< <<key, v>> >>) : key \in SourceKeys, v \in SourceValues}
      \cup {ODict(<< <<ks[1], v1>>, <<ks[2], v2>> >>) :
              ks \in {p \in SourceKeys \X SourceKeys : p[1] # p[2]},
              v1 \in SourceValues, v2 \in SourceValues}

SourceSeqs == UNION {[1..n -> Sources] : n \in 0..MaxSources}

InitMulti ==
    /\ TokTrivial
    /\ NavTrivial
    /\ clsf = NoCls
    /\ vw = NoViews
    /\ gr = NoGraph
    /\ \E dcts \in SourceSeqs :
          mdr = [pc |-> "reader", self |-> MultiDictReader(dcts),
                 label |-> <<>>, res |-> Ok(Leaf(0)), keys |-> <<>>]

\* mdct[label]
MdrGetItem(label) ==
    /\ mdr.pc \in {"reader", "keys"}
    /\ mdr' = [mdr EXCEPT !.pc = "getitem", !.label = label,
                          !.res = mdr_getitem(mdr.self, label)]
    /\ UNCHANGED <<tpc, tsep, tqc, tstr, ttoks, tstr2, ttoks2, heap, spent,
                   op, clsf, vw, gr>>

\* mdct.keys()
MdrKeys ==
    /\ mdr.pc = "reader"
    /\ mdr' = [mdr EXCEPT !.pc = "keys", !.keys = mdr_iter(mdr.self)]
    /\ UNCHANGED <<tpc, tsep, tqc, tstr, ttoks, tstr2, ttoks2, heap, spent,
                   op, clsf, vw, gr>>

\* the reader returned by mdct[label] is the one asked next
MdrDescend ==
    /\ mdr.pc = "getitem"
    /\ mdr.res.err = "" /\ mdr.res.val.k = "reader"
    /\ mdr' = [mdr EXCEPT !.pc = "reader", !.self = mdr.res.val,
                          !.label = <<>>, !.res = Ok(Leaf(0)),
                          !.keys = <<>>]
    /\ UNCHANGED <<tpc, tsep, tqc, tstr, ttoks, tstr2, ttoks2, heap, spent,
                   op, clsf, vw, gr>>

NextMulti ==
    \/ \E label \in Labels : MdrGetItem(label)
    \/ MdrKeys
    \/ MdrDescend

SpecMulti == InitMulti /\ [][NextMulti]_vars

(***************************************************************************)
(* Claims about the cascading reader.                                      *)
(***************************************************************************)
\* the sources answering a label, and what each of them holds
Answering(dcts, label) ==
    {i \in 1..Len(dcts) : \E n \in 1..Len(dcts[i].m) : dcts[i].m[n][1] = label}

Held(dcts, i, label) ==
    dcts[i].m[CHOOSE n \in 1..Len(dcts[i].m) : dcts[i].m[n][1] = label][2]

LeafHolders(dcts, label) ==
    {i \in Answering(dcts, label) : Held(dcts, i, label).k = "leaf"}

Least(S) == CHOOSE i \in S : \A j \in S : i <= j

\* the members of S in ascending order
RECURSIVE Ascending(_)
Ascending(S) ==
    IF S = {} THEN <<>> ELSE <<Least(S)>> \o Ascending(S \ {Least(S)})

\* where a key is first seen: (source, position in the source)
FirstSeen(dcts, key) ==
    LET i == Least(Answering(dcts, key))
    IN  <<i, CHOOSE n \in 1..Len(dcts[i].m) : dcts[i].m[n][1] = key>>

\* the lookup raises KeyError exactly when no source holds the label, and
\* returns a reader over the Mappings held, in source order, when every
\* source holding the label holds a Mapping
MissOrAllMappings ==
    mdr.pc = "getitem" =>
        LET dcts == mdr.self.m
            ans == Answering(dcts, mdr.label)
        IN  /\ ans = {} <=> mdr.res.err = "KeyError"
            /\ (ans # {} /\ LeafHolders(dcts, mdr.label) = {}) =>
                  mdr.res = Ok(MultiDictReader(
                              [n \in 1..Cardinality(ans) |->
                                 Held(dcts, Ascending(ans)[n], mdr.label)]))

\* the keys yielded are the keys of the sources, each once, in the order
\* in which they are first seen
KeysFirstSeen ==
    mdr.pc = "keys" =>
        LET dcts == mdr.self.m
            ks == mdr.keys
        IN  /\ {ks[n] : n \in 1..Len(ks)}
                 = UNION {{d.m[n][1] : n \in 1..Len(d.m)} :
                            d \in {dcts[i] : i \in 1..Len(dcts)}}
            /\ \A a, b \in 1..Len(ks) :
                  a < b =>
                    LET fa == FirstSeen(dcts, ks[a])
                        fb == FirstSeen(dcts, ks[b])
                    IN  fa[1] < fb[1] \/ (fa[1] = fb[1] /\ fa[2] < fb[2])

\* C21 as stated: a lookup returns the value of the first source holding
\* the label as a leaf, raises the missing-key error only when every
\* source misses the label, and returns a reader over the Mappings held
\* when every answering source holds a Mapping; key iteration yields the
\* union of the keys, each once, in first-seen order.
C21_FirstLeafWins ==
    /\ MissOrAllMappings
    /\ KeysFirstSeen
    /\ mdr.pc = "getitem" =>
          LET leaves == LeafHolders(mdr.self.m, mdr.label)
          IN  leaves # {} =>
                mdr.res = Ok(Held(mdr.self.m, Least(leaves), mdr.label))

\* What the lookup does (C21): it returns the leaf of the first answering
\* source when that source holds a leaf, raises TypeError (met while the message of the
\* incoherence ValueError is built) when a source holding a Mapping
\* answers before a source holding a leaf, raises KeyError only when
\* every source misses the label, and returns a reader over the Mappings
\* held, in source order, when every answering source holds a Mapping;
\* key iteration yields the union of the keys, each once, in first-seen
\* order.
CascadingReadAsCoded ==
    /\ MissOrAllMappings
    /\ KeysFirstSeen
    /\ mdr.pc = "getitem" =>
          LET dcts == mdr.self.m
              ans == Answering(dcts, mdr.label)
              leaves == LeafHolders(dcts, mdr.label)
          IN  leaves # {} =>
                IF Least(leaves) = Least(ans)
                THEN mdr.res = Ok(Held(dcts, Least(leaves), mdr.label))
                ELSE mdr.res.err = "TypeError"

LeafAfterMiss ==
    /\ mdr.pc = "getitem"
    /\ Len(mdr.self.m) = 2
    /\ Answering(mdr.self.m, mdr.label) = {2}
    /\ mdr.res = Ok(Held(mdr.self.m, 2, mdr.label))
    /\ mdr.res.val.k = "leaf"


(***************************************************************************)
(* kids.data.graph: reorder(elts, fun_deps).  fun_deps is a function from  *)
(* the elements to the set of their dependencies; the list is a sequence   *)
(* indexed from 0 in the code, so elts[idx] of the code is elts[idx + 1].  *)
(***************************************************************************)
Nodes == {1, 2, 3}

Elems(elts) == {elts[i] : i \in 1..Len(elts)}

\* elts.index(n): the first position of n, counted from 0
index(elts, n) == (CHOOSE i \in 1..Len(elts) :
                      elts[i] = n /\ \A j \in 1..(i - 1) : elts[j] # n) - 1

\* the elements met by the loop of leafage: those of `todo' and their
\* dependencies, transitively
RECURSIVE Visited(_, _, _)
Visited(todo, done, fun_deps) ==
    IF todo = {} THEN done
    ELSE LET e == CHOOSE x \in todo : TRUE
         IN  Visited((todo \ {e}) \cup (fun_deps[e] \ (done \cup {e})),
                     done \cup {e}, fun_deps)

\* leafage taking every element for a leaf
leafage_every_element(elts, fun_deps) == Elems(elts)

\* leafage(elts, fun_deps): the elements met that depend on nothing
leafage(elts, fun_deps) ==
    {e \in Visited(Elems(elts), {}, fun_deps) : fun_deps[e] = {}}

\* invert_fun(elts, fun_deps)(d): the elements of the list depending on d
invert_fun(elts, fun_deps, d) == {e \in Elems(elts) : d \in fun_deps[e]}

\* swap(l, p1, p2), positions counted from 0
swap(l, p1, p2) ==
    [i \in 1..Len(l) |-> IF i = p1 + 1 THEN l[p2 + 1]
                         ELSE IF i = p2 + 1 THEN l[p1 + 1] ELSE l[i]]

\* the state of a call of reorder at the head of its loop
reorder_enter(elts, fun_deps) ==
    [pc |-> "loop", input |-> elts, deps |-> fun_deps, elts |-> elts,
     idx |-> 0, leafs |-> leafage(elts, fun_deps), err |-> ""]

\* the slices elts[:idx] and elts[idx+1:]
seen_of(g) == SubSeq(g.elts, 1, g.idx)

rest_of(g) == SubSeq(g.elts, g.idx + 2, Len(g.elts))

\* max(elts.index(n) for n in fun_deps(elts[idx]))
last_dep_of(g) ==
    LET at == {index(g.elts, n) : n \in g.deps[g.elts[g.idx + 1]]}
    IN  CHOOSE m \in at : \A o \in at : o <= m

\* which branch the loop of reorder takes from state g
reorder_branch(g) ==
    IF ~(g.idx < Len(g.elts)) THEN "return"
    ELSE LET e == g.elts[g.idx + 1]
         IN  IF e \in Elems(seen_of(g)) THEN "duplicate"
             ELSE IF e \in g.leafs THEN "leaf"
             ELSE IF g.deps[e] = {} \/ ~(g.deps[e] \subseteq Elems(g.elts))
             THEN "ValueError"
             ELSE IF ~(last_dep_of(g) > g.idx) THEN "AssertionError"
             ELSE "swap"

\* one turn of the loop of reorder
reorder_step(g) ==
    LET e == g.elts[g.idx + 1]
        seen == seen_of(g)
        br == reorder_branch(g)
    IN  IF br = "return" THEN [g EXCEPT !.pc = "returned"]
        ELSE IF br = "duplicate"
        THEN [g EXCEPT !.elts = seen \o rest_of(g)]
        ELSE IF br = "leaf"
        THEN [g EXCEPT
                !.leafs = (g.leafs \ {e})
                           \cup {x \in invert_fun(g.input, g.deps, e) :
                                   \A d \in g.deps[x] :
                                       d = e \/ d \in Elems(seen)},
                !.idx = g.idx + 1]
        ELSE IF br = "swap"
        THEN [g EXCEPT !.elts = swap(g.elts, g.idx, last_dep_of(g))]
        ELSE [g EXCEPT !.pc = "raised", !.err = br]

(***************************************************************************)
(* The reorder specification: a call on a list over Nodes with some        *)
(* dependency function, one action for each branch of the loop.            *)
(***************************************************************************)
\* the length of the list given to reorder
MaxElts == 3

EltsLists == UNION {[1..n -> Nodes] : n \in 0..MaxElts}

InitReorder ==
    /\ TokTrivial
    /\ NavTrivial
    /\ clsf = NoCls
    /\ vw = NoViews
    /\ mdr = NoReader
    /\ \E elts \in EltsLists : \E fun_deps \in [Nodes -> SUBSET Nodes] :
          gr = reorder_enter(elts, fun_deps)

\* elts[idx] in seen: the duplicate is dropped
Duplicate ==
    /\ gr.pc = "loop"
    /\ reorder_branch(gr) = "duplicate"
    /\ gr' = reorder_step(gr)
    /\ UNCHANGED <<tpc, tsep, tqc, tstr, ttoks, tstr2, ttoks2, heap, spent,
                   op, clsf, vw, mdr>>

\* elts[idx] in leafs: it stays where it is
PlaceLeaf ==
    /\ gr.pc = "loop"
    /\ reorder_branch(gr) = "leaf"
    /\ gr' = reorder_step(gr)
    /\ UNCHANGED <<tpc, tsep, tqc, tstr, ttoks, tstr2, ttoks2, heap, spent,
                   op, clsf, vw, mdr>>

\* elts[idx] is swapped with its last dependency
Swap ==
    /\ gr.pc = "loop"
    /\ reorder_branch(gr) = "swap"
    /\ gr' = reorder_step(gr)
    /\ UNCHANGED <<tpc, tsep, tqc, tstr, ttoks, tstr2, ttoks2, heap, spent,
                   op, clsf, vw, mdr>>

\* assert last_dep > idx fails
CircularDep ==
    /\ gr.pc = "loop"
    /\ reorder_branch(gr) = "AssertionError"
    /\ gr' = reorder_step(gr)
    /\ UNCHANGED <<tpc, tsep, tqc, tstr, ttoks, tstr2, ttoks2, heap, spent,
                   op, clsf, vw, mdr>>

\* elts.index(n) of a dependency that is not listed
UnknownDep ==
    /\ gr.pc = "loop"
    /\ reorder_branch(gr) = "ValueError"
    /\ gr' = reorder_step(gr)
    /\ UNCHANGED <<tpc, tsep, tqc, tstr, ttoks, tstr2, ttoks2, heap, spent,
                   op, clsf, vw, mdr>>

\* idx = len(elts): return elts
Return ==
    /\ gr.pc = "loop"
    /\ reorder_branch(gr) = "return"
    /\ gr' = reorder_step(gr)
    /\ UNCHANGED <<tpc, tsep, tqc, tstr, ttoks, tstr2, ttoks2, heap, spent,
                   op, clsf, vw, mdr>>

NextReorder ==
    \/ Duplicate
    \/ PlaceLeaf
    \/ Swap
    \/ CircularDep
    \/ UnknownDep
    \/ Return

SpecReorder == InitReorder /\ [][NextReorder]_vars

\* the loop of reorder keeps running while it has a turn to take
SpecReorderFair == SpecReorder /\ WF_vars(NextReorder)

(***************************************************************************)
(* Claims about reorder.                                                   *)
(***************************************************************************)
\* the elements d reaches through the dependencies
RECURSIVE DepsClosure(_, _)
DepsClosure(S, fun_deps) ==
    LET T == S \cup UNION {fun_deps[e] : e \in S}
    IN  IF T = S THEN S ELSE DepsClosure(T, fun_deps)

Acyclic(elts, fun_deps) ==
    \A e \in Elems(elts) : e \notin DepsClosure(fun_deps[e], fun_deps)

Closed(elts, fun_deps) ==
    \A e \in Elems(elts) : fun_deps[e] \subseteq Elems(elts)

\* every element of the list comes after all of its dependencies
DepsSatisfied(elts, fun_deps) ==
    \A i \in 1..Len(elts) :
        \A d \in fun_deps[elts[i]] : \E j \in 1..(i - 1) : elts[j] = d

NoDuplicates(elts) ==
    \A i, j \in 1..Len(elts) : elts[i] = elts[j] => i = j

\* C22: on an acyclic dependency relation referring only to elements of
\* the list reorder does not raise, the list it returns holds each
\* distinct element of the input exactly once with every element after
\* all of its dependencies, and an input that already satisfies its
\* dependencies and has no duplicates is returned in the same order.
C22_ReorderSatisfiesDeps ==
    (Acyclic(gr.input, gr.deps) /\ Closed(gr.input, gr.deps)) =>
        /\ gr.pc # "raised"
        /\ gr.pc = "returned" =>
              /\ Elems(gr.elts) = Elems(gr.input)
              /\ NoDuplicates(gr.elts)
              /\ DepsSatisfied(gr.elts, gr.deps)
              /\ (NoDuplicates(gr.input) /\ DepsSatisfied(gr.input, gr.deps))
                    => gr.elts = gr.input

C22_Witness ==
    /\ gr.pc = "returned"
    /\ Acyclic(gr.input, gr.deps) /\ Closed(gr.input, gr.deps)
    /\ Len(gr.input) = 3
    /\ ~NoDuplicates(gr.input)
    /\ ~DepsSatisfied(gr.input, gr.deps)

\* C30: every call of reorder ends, by returning or by raising.
C30_ReorderTerminates == <>(gr.pc \in {"returned", "raised"})


(***************************************************************************)
(* The CharTokenizer specification: a tokenizer object is built for a      *)
(* separator and an escape character; a token sequence is untokenized and  *)
(* tokenized back, a string is tokenized and untokenized back, all by the  *)
(* methods of that one object.                                             *)
(***************************************************************************)
TheTokenizer == CharTokenizer(tsep, tqc)

InitCharTok ==
    /\ mdr = NoReader
    /\ gr = NoGraph
    /\ \E c \in Configs : tsep = c[1] /\ tqc = c[2]
    /\ \/ /\ tpc = "ct_str"
          /\ tstr \in Strings
          /\ ttoks = <<>>
       \/ /\ tpc = "ct_toks"
          /\ ttoks \in TokenSeqs
          /\ tstr = <<>>
    /\ tstr2 = <<>>
    /\ ttoks2 = <<>>
    /\ NavTrivial
    /\ clsf = NoCls
    /\ vw = NoViews

\* tk.tokenize(s)
CtTokenizeStr ==
    /\ tpc = "ct_str"
    /\ ttoks' = ct_tokenize(TheTokenizer, tstr)
    /\ tpc' = "ct_str_tokenized"
    /\ UNCHANGED <<tsep, tqc, tstr, tstr2, ttoks2, heap, spent, op, clsf, vw,
                   mdr, gr>>

\* tk.untokenize(tk.tokenize(s))
CtUntokenizeBack ==
    /\ tpc = "ct_str_tokenized"
    /\ tstr2' = ct_untokenize(TheTokenizer, ttoks)
    /\ tpc' = "ct_str_done"
    /\ UNCHANGED <<tsep, tqc, tstr, ttoks, ttoks2, heap, spent, op, clsf, vw,
                   mdr, gr>>

\* tk.untokenize(tokens)
CtUntokenizeToks ==
    /\ tpc = "ct_toks"
    /\ tstr2' = ct_untokenize(TheTokenizer, ttoks)
    /\ tpc' = "ct_toks_untokenized"
    /\ UNCHANGED <<tsep, tqc, tstr, ttoks, ttoks2, heap, spent, op, clsf, vw,
                   mdr, gr>>

\* tk.tokenize(tk.untokenize(tokens))
CtTokenizeBack ==
    /\ tpc = "ct_toks_untokenized"
    /\ ttoks2' = ct_tokenize(TheTokenizer, tstr2)
    /\ tpc' = "ct_toks_done"
    /\ UNCHANGED <<tsep, tqc, tstr, ttoks, tstr2, heap, spent, op, clsf, vw,
                   mdr, gr>>

NextCharTok ==
    \/ CtTokenizeStr
    \/ CtUntokenizeBack
    \/ CtUntokenizeToks
    \/ CtTokenizeBack

SpecCharTok == InitCharTok /\ [][NextCharTok]_vars

(***************************************************************************)
(* Claims about CharTokenizer.                                             *)
(***************************************************************************)
\* C23: a CharTokenizer built with separator c and escape character q
\* decodes with the pair it encodes with: tokenizing what it untokenized
\* gives the token sequence back, and it tokenizes a string as the split
\* made for (c, q) does.
C23_SamePairBothWays ==
    /\ tpc = "ct_toks_done" => ttoks2 = ttoks
    /\ tpc = "ct_str_tokenized" => ttoks = tokenize(tstr, tsep, tqc)

\* with the default escape character the round trip of the object holds
DefaultEscapeRoundTrip ==
    (tpc = "ct_toks_done" /\ tqc = DefaultQuote) => ttoks2 = ttoks


(***************************************************************************)
(* Further claims about mset.                                              *)
(***************************************************************************)
\* the node the tokens of P before the last lead to in the tree before
\* the call
FinalParent == NodeAt(op.pre, Root, OpToks, Len(OpToks) - 1)

LastToken == OpToks[Len(OpToks)]

\* C24: mset(root, P, v) whose final token addresses a Sequence parent of
\* length n sets the element at an integer index within bounds and keeps
\* the length, fails with IndexOutOfRange on an index out of bounds
\* without extending the Sequence, and fails with IndexNotInteger on a
\* token that is no integer.
C24_SetIntoSequence ==
    (op.name = "mset" /\ FinalParent # NoValue /\ IsList(op.pre, FinalParent))
      => LET n == Len(op.pre[FinalParent.v].m)
             i == IntegerOf(LastToken)
         IN  IF ~IsIntegerToken(LastToken)
             THEN op.res.err = "IndexNotIntegerError" /\ heap = op.pre
             ELSE IF 0 - n <= i /\ i < n
             THEN /\ op.res.err = ""
                  /\ Len(heap[FinalParent.v].m) = n
                  /\ RefChild(heap, FinalParent, LastToken) = op.value
             ELSE op.res.err = "IndexOutOfRange" /\ heap = op.pre

\* a Sequence parent is never assigned into, whatever the final token:
\* the call raises Python's plain TypeError and leaves the tree as it was
SequenceParentRaisesTypeError ==
    (op.name = "mset" /\ FinalParent # NoValue /\ IsList(op.pre, FinalParent))
      => op.res.err = "TypeError" /\ heap = op.pre

\* some strict prefix of P leads to a Leaf
PrefixIsLeaf ==
    \E n \in 0..(Len(OpToks) - 1) : NodeAt(op.pre, Root, OpToks, n).k = "leaf"

\* C25: mset(root, P, v) walks like mget: when some strict prefix of P
\* resolves to a Leaf, the would-be parent of the final token included,
\* the call fails with NonTraversable, the error kind mget reports, and
\* the tree is unchanged.
C25_SetPastLeaf ==
    (op.name = "mset" /\ PrefixIsLeaf) =>
        /\ op.res.err = "NonDictLikeTypeError"
        /\ op.res.err = mget(op.pre, Root, op.key).err
        /\ heap = op.pre

\* a Leaf met before the would-be parent is reported as mget reports it; a
\* Leaf that is the would-be parent raises Python's plain TypeError
SetPastLeafAsCoded ==
    (op.name = "mset" /\ PrefixIsLeaf) =>
        /\ heap = op.pre
        /\ mget(op.pre, Root, op.key).err = "NonDictLikeTypeError"
        /\ op.res.err = IF FinalParent # NoValue /\ FinalParent.k = "leaf"
                        THEN "TypeError" ELSE "NonDictLikeTypeError"

\* C28: mset is all-or-nothing on trees of Mappings, Sequences and Leaves:
\* a call that fails never fails with MissingKey and leaves the tree
\* identical to the tree before the call.
C28_SetAllOrNothing ==
    (op.name = "mset" /\ op.res.err # "") =>
        /\ op.res.err # "MissingKeyError"
        /\ heap = op.pre

\* mset has failed past a token that resolved, on a path of three tokens
C28_Witness ==
    /\ op.name = "mset"
    /\ Len(OpToks) = 3
    /\ op.res.err = "NonDictLikeTypeError"
    /\ NodeAt(op.pre, Root, OpToks, 1) # NoValue
    /\ heap = op.pre


(***************************************************************************)
(* Further claims about unclassify, inflate and deflate.                   *)
(***************************************************************************)
\* unclassify has been called without a depth budget
UnclassifiedWhole == clsf.pc = "unclassified" /\ clsf.deep2 = -1

\* C26: one traversability predicate decides Leaf versus container: a
\* node that mget descends into, Mapping or Sequence, is descended into by
\* unclassify as well, so that without a depth budget no value emitted is
\* a Mapping or a Sequence.
C26_OnePredicate ==
    UnclassifiedWhole =>
        \A e \in clsf.flat :
            /\ ~IsDict(clsf.res.heap, e[2])
            /\ ~IsList(clsf.res.heap, e[2])

\* what unclassify does with a Sequence: it is emitted whole, as a value
SequenceEmittedWhole ==
    UnclassifiedWhole =>
        \A i \in DOMAIN clsf.res.heap :
            (clsf.res.heap[i].k = "list"
               /\ \E path \in LeafPaths(clsf.res.heap, Ref(1)) :
                     path[2] = Ref(i))
              => \E e \in clsf.flat : e[2] = Ref(i)

\* inflate with a depth budget has been followed by deflate with the same
\* budget
RoundTripWithin ==
    /\ clsf.pc = "deflated"
    /\ clsf.call = "inflate"
    /\ clsf.deep >= 0
    /\ clsf.deep2 = clsf.deep

\* C29: for every depth d >= 0 and every flat mapping whose keys are
\* conflict-free, deflate(inflate(flat, sep, d), sep, d) is flat, also for
\* keys holding more than d separators.
C29_DepthRoundTrip ==
    RoundTripWithin => clsf.dflat = py_dict(EntrySet(clsf.entries))

\* the round trip holds for canonical keys of fewer tokens than the budget
\* has levels, whose splitting the budget does not cut short
RoundTripOfSpareBudget ==
    (RoundTripWithin /\ AllCanonical(clsf.entries)
       /\ \A i \in 1..Len(clsf.entries) :
             Len(PathToks(clsf.entries[i][1])) <= clsf.deep) =>
        clsf.dflat = py_dict(EntrySet(clsf.entries))


(***************************************************************************)
(* The two-tokenizer view specification: the caller wraps one tree in two  *)
(* mdict objects, one with the separator '.', one with the separator '/',  *)
(* then works through both.                                                *)
(***************************************************************************)
OtherSep == "/"

InitTwoViews ==
    /\ mdr = NoReader
    /\ gr = NoGraph
    /\ TokTrivial
    /\ clsf = NoCls
    /\ heap \in ViewSeeds
    /\ spent = 0
    /\ op = NoOp
    /\ vw = [pc |-> "on",
             views |-> <<mdict(Root, CharTokenizer(DefaultSep, DefaultQuote),
                               <<>>),
                         mdict(Root, CharTokenizer(OtherSep, DefaultQuote),
                               <<>>)>>,
             store |-> <<>>]

SpecTwoViews == InitTwoViews /\ [][NextView]_vars

\* unclassify of the tree a view wraps, with the join function of the view
OwnFlat(h, v) ==
    py_dict(unclassify(h, v.dct, -1, v.tokenizer.sep, v.tokenizer.quote_char))

\* C27: two views with different tokenizers over one tree do not
\* interfere: whatever the order in which their flat projections are
\* read, the flat of a view is unclassify of its tree with the join
\* function of that view.
C27_FlatUsesOwnTokenizer ==
    op.name = "flat" => op.res = OwnFlat(heap, OpView)

\* the flat of a view is unclassify of its tree with the join function of
\* some view the caller holds: the one that read an equal content first
FlatUsesSomeTokenizer ==
    op.name = "flat" =>
        \E i \in 1..Len(vw.views) :
            op.res = OwnFlat(heap, [OpView EXCEPT
                                      !.tokenizer = vw.views[i].tokenizer])

====
